---------------------------- MODULE Spec2Model ----------------------------
(***************************************************************************)
(* Moodle Prototype Manager: the lifecycle manager (docker/manager.go),    *)
(* the persistent store (storage/files.go, storage/credentials.go), the    *)
(* credential extractor (docker log parser) and the readiness orchestrator *)
(* (App.RunMoodle, App.StopMoodle, App.OnShutdown and the detached         *)
(* waitForContainerAndExtractCredentialsSince task).                       *)
(*                                                                         *)
(* Strings that the code measures or searches (handles, image names) are   *)
(* sequences of characters, so that len() and strings.Contains are         *)
(* computed.  An external process is a value proc = [exit, out] chosen by  *)
(* the environment; the manager's operations are functions of it.          *)
(***************************************************************************)
EXTENDS Integers, Sequences, FiniteSets, TLC

VARIABLES
    started,      \* OnStartup has run (App.ctx set, image name configured)
    imageName,    \* Manager.imageName
    imageConfig,  \* content of image.docker, or NoFile
    handleFile,   \* content of container.id, or NoFile
    credFile,     \* content of moodle.txt (sequence of key=value lines), or NoFile
    images,       \* docker: names listed by `docker images`
    containers,   \* docker: created containers, index -> [running, logs]
    tasks,        \* detached readiness-wait goroutines of this process
    last,         \* the App call that produced this state (observation)
    mgr,          \* the Manager call that produced this state (observation)
    layers,       \* PullProgress.layers of the pull in progress
    observer,     \* what the progress callback was told (observation)
    feed,         \* the lines read by this pull run, kept for a second run
    serviceLog,   \* the service output handed to LogParser.ExtractCredentials
    credInfo,     \* the CredentialInfo it returned
    pull,         \* a Manager.PullImageWithProgress call: process, pipes, goroutines
    store         \* the last FileManager call and what the last saves wrote

vars ==
    <<started, imageName, imageConfig, handleFile, credFile, images, containers,
      tasks, last, mgr, layers, observer, feed, serviceLog, credInfo, pull,
      store>>
pullVars == <<layers, observer, feed>>
unitVars == <<serviceLog, credInfo, pull, store>>

-----------------------------------------------------------------------------
(* Bounds of the model *)

\* containers the environment lets `docker run` create
MaxContainers == 2
\* readiness-wait goroutines alive at once
MaxTasks == 1
\* longest handle handed to a Manager operation in SpecManager
MaxHandleLen == 13
\* consecutive log-fetch failures a first-run poll is followed through in SpecWait
MaxConsecutiveErrors == 6
\* and in Spec, where the handlers run beside the wait
MaxErrorsBesideHandlers == 1
\* readiness-wait goroutines alive at once in SpecOverlap
MaxOverlap == 2

\* 2-second probe iterations followed one by one before the clock jumps
MaxFineProbes == 1
\* layers of the image pulled
MaxLayers == 2
\* lines of docker output read in SpecProgress
MaxLines == 4
\* lines of the pull run that SpecReplay reads a second time
MaxStreamLen == 3
\* lines the `docker pull` process writes in SpecPull
MaxWritten == 2
\* pieces of service output the extractor is followed through in SpecExtract
MaxPieces == 4
\* largest byte total a progress record reports
MaxBytes == 2
\* length of the id `docker run -d` prints
IdLen == 12

(* Program constants *)

\* errors.ValidateContainerID: minimum practical length
MinContainerIDLen == 12
\* errors.ValidateImageName: minimum length
MinImageNameLen == 3
\* waitForContainerAndExtractCredentialsSince: maxLogErrors
MaxLogErrors == 5
\* poll interval, and the widened one, in seconds
PollSeconds == 2
BackoffSeconds == 5
\* subsequentTimeout, in seconds (10 * time.Minute)
SubsequentTimeout == 600

\* a file that does not exist, and a file holding data
NoFile == [exists |-> FALSE, data |-> <<>>]
File(data) == [exists |-> TRUE, data |-> data]
Nil == "nil"

-----------------------------------------------------------------------------
(* errors package: validation *)

\* ValidateNotEmpty(field, value)
ValidateNotEmpty(value) ==
    IF Len(value) = 0 THEN "ValidationError" ELSE Nil

ValidateContainerID_NoMinLength(containerID) ==
    ValidateNotEmpty(containerID)

\* ValidateContainerID(containerID): non-empty, at least 12 characters
ValidateContainerID(containerID) ==
    IF ValidateNotEmpty(containerID) # Nil THEN "ValidationError"
    ELSE IF Len(containerID) < MinContainerIDLen THEN "ValidationError"
    ELSE Nil

\* ValidateImageName(imageName): non-empty, at least 3 characters
ValidateImageName(name) ==
    IF ValidateNotEmpty(name) # Nil THEN "ValidationError"
    ELSE IF Len(name) < MinImageNameLen THEN "ValidationError"
    ELSE Nil

-----------------------------------------------------------------------------
(* External processes.  proc = [exit |-> 0 or 1, out |-> output]; a call    *)
(* result is [err, val, spawned]: spawned counts cmd.CombinedOutput calls.  *)

Res(err, val, spawned) == [err |-> err, val |-> val, spawned |-> spawned]

\* unicode.IsSpace on one character
IsSpace(c) == c \in {" ", "\n", "\t", "\r"}

\* strings.TrimLeft / TrimRight of white space
RECURSIVE TrimLeft(_)
TrimLeft(s) ==
    IF s = <<>> THEN s
    ELSE IF IsSpace(Head(s)) THEN TrimLeft(Tail(s)) ELSE s

RECURSIVE TrimRight(_)
TrimRight(s) ==
    IF s = <<>> THEN s
    ELSE IF IsSpace(s[Len(s)]) THEN TrimRight(SubSeq(s, 1, Len(s) - 1)) ELSE s

\* strings.TrimSpace
TrimSpace(s) == TrimRight(TrimLeft(s))

\* Manager.StartContainer
StartContainer(containerID, proc) ==
    IF ValidateContainerID(containerID) # Nil THEN Res("ValidationError", FALSE, 0)
    ELSE IF proc.exit # 0 THEN Res("ExternalToolError", FALSE, 1)
    ELSE Res(Nil, TRUE, 1)

\* Manager.StopContainer
StopContainer(containerID, proc) ==
    IF ValidateContainerID(containerID) # Nil THEN Res("ValidationError", FALSE, 0)
    ELSE IF proc.exit # 0 THEN Res("ExternalToolError", FALSE, 1)
    ELSE Res(Nil, TRUE, 1)

\* Manager.ForceStopContainer
ForceStopContainer(containerID, proc) ==
    IF ValidateContainerID(containerID) # Nil THEN Res("ValidationError", FALSE, 0)
    ELSE IF proc.exit # 0 THEN Res("ExternalToolError", FALSE, 1)
    ELSE Res(Nil, TRUE, 1)

\* Manager.IsContainerRunning: inspect --format={{.State.Running}}
IsContainerRunning(containerID, proc) ==
    IF ValidateContainerID(containerID) # Nil THEN Res("ValidationError", FALSE, 0)
    ELSE IF proc.exit # 0 THEN Res("ExternalToolError", FALSE, 1)
    ELSE Res(Nil, TrimSpace(proc.out) = <<"true">>, 1)

\* Manager.GetContainerLogs
GetContainerLogs(containerID, proc) ==
    IF ValidateContainerID(containerID) # Nil THEN Res("ValidationError", <<>>, 0)
    ELSE IF proc.exit # 0 THEN Res("ExternalToolError", <<>>, 1)
    ELSE Res(Nil, proc.out, 1)

\* Manager.GetContainerLogsSince: since = 0 is the zero time.Time
GetContainerLogsSince(containerID, since, proc) ==
    IF ValidateContainerID(containerID) # Nil THEN Res("ValidationError", <<>>, 0)
    ELSE IF since = 0 THEN Res("ValidationError", <<>>, 0)
    ELSE IF proc.exit # 0 THEN Res("ExternalToolError", <<>>, 1)
    ELSE Res(Nil, proc.out, 1)

\* Manager.ValidateContainerID: format check, then `docker inspect`
ManagerValidateContainerID(containerID, proc) ==
    IF ValidateContainerID(containerID) # Nil THEN Res("ValidationError", FALSE, 0)
    ELSE IF proc.exit # 0 THEN Res("ExternalToolError", FALSE, 1)
    ELSE Res(Nil, TRUE, 1)


-----------------------------------------------------------------------------
(* Persistent store: storage/files.go.  io is the outcome of the file       *)
(* system call (TRUE = success).  A file's content is a string.             *)

\* FileManager.ContainerIDExists: os.Stat succeeds
ContainerIDExists(file) == file.exists

\* FileManager.SaveContainerID: returns the error and the file afterwards
SaveContainerID(file, containerID, io) ==
    IF ValidateContainerID(containerID) # Nil
    THEN [err |-> "ValidationError", file |-> file]
    ELSE IF ~io THEN [err |-> "FileError", file |-> file]
    ELSE [err |-> Nil, file |-> File(containerID)]

\* FileManager.LoadContainerID
LoadContainerID(file, io) ==
    IF ~file.exists \/ ~io THEN [err |-> "FileError", val |-> <<>>]
    ELSE IF TrimSpace(file.data) = <<>> THEN [err |-> "FileError", val |-> <<>>]
    ELSE IF ValidateContainerID(TrimSpace(file.data)) # Nil
    THEN [err |-> "ValidationError", val |-> <<>>]
    ELSE [err |-> Nil, val |-> TrimSpace(file.data)]

\* FileManager.CredentialsExist
CredentialsExist(file) == file.exists

FormatCredentials_Swapped(password, url) ==
    <<"password", "=">> \o url \o <<"\n", "url", "=">> \o password \o <<"\n">>

\* fmt.Sprintf("password=%s\nurl=%s\n", password, url)
FormatCredentials(password, url) ==
    <<"password", "=">> \o password \o <<"\n", "url", "=">> \o url \o <<"\n">>

\* FileManager.SaveCredentials
SaveCredentials(file, password, url, io) ==
    IF ValidateNotEmpty(password) # Nil \/ ValidateNotEmpty(url) # Nil
    THEN [err |-> "ValidationError", file |-> file]
    ELSE IF ~io THEN [err |-> "FileError", file |-> file]
    ELSE [err |-> Nil, file |-> File(FormatCredentials(password, url))]

\* strings.Split(text, "\n")
RECURSIVE SplitLines(_)
SplitLines(s) ==
    IF \A i \in 1..Len(s) : s[i] # "\n" THEN <<s>>
    ELSE LET n == CHOOSE i \in 1..Len(s) :
                      s[i] = "\n" /\ \A j \in 1..(i - 1) : s[j] # "\n"
         IN  <<SubSeq(s, 1, n - 1)>> \o SplitLines(SubSeq(s, n + 1, Len(s)))

\* index of the first "=" of a line, 0 when there is none (strings.SplitN(line, "=", 2))
FirstEq(line) ==
    IF \A i \in 1..Len(line) : line[i] # "=" THEN 0
    ELSE CHOOSE i \in 1..Len(line) : line[i] = "=" /\ \A j \in 1..(i - 1) : line[j] # "="

\* the key=value lines LoadCredentials accepts, in file order
ValidEntries(lines) ==
    SelectSeq(
        [i \in 1..Len(lines) |->
            LET line == TrimSpace(lines[i])
                e == FirstEq(line)
            IN  IF line = <<>> \/ e = 0 THEN <<>>
                ELSE <<TrimSpace(SubSeq(line, 1, e - 1)),
                       TrimSpace(SubSeq(line, e + 1, Len(line)))>>],
        LAMBDA kv : kv # <<>> /\ kv[1] # <<>>)

\* credentials[key]: the last entry for key wins
RECURSIVE MapOf(_)
MapOf(entries) ==
    IF entries = <<>> THEN <<>>
    ELSE LET rest == MapOf(SubSeq(entries, 1, Len(entries) - 1))
             e == entries[Len(entries)]
         IN  IF \E i \in 1..Len(rest) : rest[i][1] = e[1] THEN rest
             ELSE rest \o <<e>>

HasKey(m, key) == \E i \in 1..Len(m) : m[i][1] = key
Get(m, key) == m[CHOOSE i \in 1..Len(m) : m[i][1] = key][2]

\* FileManager.LoadCredentials: the map as a sequence of <<key, value>>
LoadCredentials(file, io) ==
    IF ~file.exists \/ ~io THEN [err |-> "FileError", val |-> <<>>]
    ELSE IF Len(file.data) = 0 THEN [err |-> "FileError", val |-> <<>>]
    ELSE LET entries == ValidEntries(SplitLines(file.data))
         IN  IF Len(entries) = 0 THEN [err |-> "FileError", val |-> <<>>]
             ELSE [err |-> Nil, val |-> MapOf([i \in 1..Len(entries) |->
                                          entries[Len(entries) + 1 - i]])]

\* FileManager.DeleteCredentials
DeleteCredentials(file, io) ==
    IF ~CredentialsExist(file) THEN [err |-> Nil, file |-> file]
    ELSE IF ~io THEN [err |-> "FileError", file |-> file]
    ELSE [err |-> Nil, file |-> NoFile]

-----------------------------------------------------------------------------
(* storage/credentials.go *)

DefaultURL == <<"http://localhost:8080">>

\* DefaultCredentials(): admin, empty password, the fixed local endpoint
DefaultCredentials == [password |-> <<>>, url |-> DefaultURL]

\* Credentials.IsValid / IsComplete
IsValid(creds) == creds.password # <<>> /\ creds.url # <<>>

\* CredentialManager.Load
CredLoad(file, io) ==
    IF ~CredentialsExist(file) THEN [err |-> Nil, val |-> DefaultCredentials]
    ELSE LET data == LoadCredentials(file, io)
         IN  IF data.err # Nil THEN [err |-> data.err, val |-> DefaultCredentials]
             ELSE IF HasKey(data.val, <<"password">>) /\ Get(data.val, <<"password">>) = <<>>
             THEN [err |-> "ValidationError", val |-> DefaultCredentials]
             ELSE IF HasKey(data.val, <<"url">>) /\ Get(data.val, <<"url">>) = <<>>
             THEN [err |-> "ValidationError", val |-> DefaultCredentials]
             ELSE [err |-> Nil,
                   val |-> [password |-> IF HasKey(data.val, <<"password">>)
                                         THEN Get(data.val, <<"password">>) ELSE <<>>,
                            url |-> IF HasKey(data.val, <<"url">>)
                                    THEN Get(data.val, <<"url">>) ELSE DefaultURL]]

\* CredentialManager.Save
CredSave(file, creds, io) ==
    IF ~IsValid(creds) THEN [err |-> "ValidationError", file |-> file]
    ELSE SaveCredentials(file, creds.password, creds.url, io)

\* CredentialManager.Update
CredUpdate(file, password, url, io) ==
    IF ValidateNotEmpty(password) # Nil \/ ValidateNotEmpty(url) # Nil
    THEN [err |-> "ValidationError", file |-> file]
    ELSE CredSave(file, [password |-> password, url |-> url], io)

\* CredentialManager.Clear
CredClear(file, io) == DeleteCredentials(file, io)

-----------------------------------------------------------------------------
(* Credential extractor: LogParser.ExtractCredentials.  The two regular     *)
(* expressions are  (?:Generated admin password:|Password:)\s*(.+)  and     *)
(* Moodle is available at:\s*(.+) ; FindStringSubmatch takes the leftmost   *)
(* match, \s* also consumes line breaks, .+ stops at the line break.        *)

PasswordMarkers == {"Generated admin password:", "Password:"}
URLMarkers == {"Moodle is available at:"}

UpToNewline_DotAll(s) == s

\* the tokens of s up to its first line break
UpToNewline(s) ==
    IF \A i \in 1..Len(s) : s[i] # "\n" THEN s
    ELSE SubSeq(s, 1, (CHOOSE i \in 1..Len(s) :
                          s[i] = "\n" /\ \A j \in 1..(i - 1) : s[j] # "\n") - 1)

FirstCapture_LastMatch(logs, markers) ==
    IF \A i \in 1..Len(logs) : logs[i] \notin markers THEN <<>>
    ELSE LET m == CHOOSE i \in 1..Len(logs) :
                      logs[i] \in markers
                      /\ \A j \in (i + 1)..Len(logs) : logs[j] \notin markers
         IN  TrimSpace(SubSeq(logs, m + 1, Len(logs)))

\* strings.TrimSpace of the first submatch of  marker\s*(.+) , "" without a match
FirstCapture(logs, markers) ==
    IF \A i \in 1..Len(logs) : logs[i] \notin markers THEN <<>>
    ELSE LET m == CHOOSE i \in 1..Len(logs) :
                      logs[i] \in markers /\ \A j \in 1..(i - 1) : logs[j] \notin markers
             rest == TrimLeft(SubSeq(logs, m + 1, Len(logs)))
         IN  TrimSpace(UpToNewline(rest))

\* LogParser.ExtractCredentials
ExtractCredentials(logs) ==
    [password |-> FirstCapture(logs, PasswordMarkers),
     url |-> FirstCapture(logs, URLMarkers)]

IsComplete_Either(ci) == ci.password # <<>> \/ ci.url # <<>>

\* CredentialInfo.IsComplete
IsComplete(ci) == ci.password # <<>> /\ ci.url # <<>>

\* a piece of service output: a marker or none, what follows it on the line,
\* and the line break unless the line is still being written
Piece(marker, rest, nl) == [marker |-> marker, rest |-> rest, nl |-> nl]

\* the characters of a piece
Render(piece) ==
    (IF piece.marker = "" THEN <<>> ELSE <<piece.marker>>)
    \o piece.rest \o (IF piece.nl THEN <<"\n">> ELSE <<>>)

\* the `logs string` argument made of pieces
RECURSIVE TextOf(_)
TextOf(pieces) ==
    IF pieces = <<>> THEN <<>> ELSE Render(Head(pieces)) \o TextOf(Tail(pieces))

\* `creds := &CredentialInfo{}`
NoCreds == [password |-> <<>>, url |-> <<>>]

-----------------------------------------------------------------------------
(* Manager operations on the image: docker/manager.go *)

\* strings.Contains(s, sub)
Contains(s, sub) ==
    \E i \in 0..(Len(s) - Len(sub)) : SubSeq(s, i + 1, i + Len(sub)) = sub

\* Manager.CheckImageExists: `docker images --format {{.Repository}}:{{.Tag}}`
CheckImageExists(name, proc) ==
    IF name = <<>> THEN Res("ValidationError", FALSE, 0)
    ELSE IF ValidateImageName(name) # Nil THEN Res("ValidationError", FALSE, 0)
    ELSE IF proc.exit # 0 THEN Res("ExternalToolError", FALSE, 1)
    ELSE Res(Nil, Contains(proc.out, name), 1)

\* Manager.PullImageWithProgress: the error is the pull command's exit status
PullImageWithProgress(name, proc) ==
    IF name = <<>> THEN Res("ValidationError", FALSE, 0)
    ELSE IF ValidateImageName(name) # Nil THEN Res("ValidationError", FALSE, 0)
    ELSE IF proc.exit # 0 THEN Res("ExternalToolError", FALSE, 1)
    ELSE Res(Nil, TRUE, 1)

\* Manager.RunContainer: `docker run -d -p 8080:8080 image`, the id on stdout
RunContainer(name, proc) ==
    IF name = <<>> THEN Res("ValidationError", <<>>, 0)
    ELSE IF ValidateImageName(name) # Nil THEN Res("ValidationError", <<>>, 0)
    ELSE IF proc.exit # 0 THEN Res("ExternalToolError", <<>>, 1)
    ELSE IF ValidateContainerID(TrimSpace(proc.out)) # Nil
    THEN Res("ValidationError", <<>>, 1)
    ELSE Res(Nil, TrimSpace(proc.out), 1)

-----------------------------------------------------------------------------
(* The environment: the docker daemon and the service inside a container.   *)

\* image.docker as configured, and OnStartup's fallback default
ConfiguredImage == <<"m", ":", "5">>
FallbackImage == <<"m", ":", "5", "0">>

\* the id docker gives its k-th container
Id(k) == [i \in 1..IdLen |-> IF i = 1 THEN ToString(k) ELSE "0"]

\* the admin password the service of container k generates on first boot
PasswordOf(k) == <<"pw" \o ToString(k)>>

\* what the service of container k prints while it boots, line by line
BootLog(k) ==
    << <<"Generated admin password:", " ">> \o PasswordOf(k) \o <<"\n">>,
       <<"Moodle is available at:", " ">> \o DefaultURL \o <<"\n">> >>

RECURSIVE Concat(_)
Concat(lines) == IF lines = <<>> THEN <<>> ELSE Head(lines) \o Concat(Tail(lines))

\* `docker logs` of container k after it printed n lines
LogText(k, n) == Concat(SubSeq(BootLog(k), 1, n))

\* the container a handle names, 0 when docker knows none
ContainerIndex(cs, h) ==
    IF \E k \in 1..Len(cs) : Id(k) = h
    THEN CHOOSE k \in 1..Len(cs) : Id(k) = h ELSE 0

Failed == [exit |-> 1, out |-> <<"Error", "\n">>]
Exited(out) == [exit |-> 0, out |-> out]

\* docker inspect --format={{.State.Running}} h ; docker inspect h
InspectProc(cs, h, ok) ==
    IF ok /\ ContainerIndex(cs, h) # 0
    THEN Exited(<<IF cs[ContainerIndex(cs, h)].running THEN "true" ELSE "false", "\n">>)
    ELSE Failed

\* docker start / stop / kill h
CommandProc(cs, h, ok) ==
    IF ok /\ ContainerIndex(cs, h) # 0 THEN Exited(h \o <<"\n">>) ELSE Failed

SetRunning(cs, h, b) ==
    IF ContainerIndex(cs, h) = 0 THEN cs
    ELSE [cs EXCEPT ![ContainerIndex(cs, h)].running = b]

\* docker logs h
LogsProc(cs, h, ok) ==
    IF ok /\ ContainerIndex(cs, h) # 0
    THEN Exited(LogText(ContainerIndex(cs, h), cs[ContainerIndex(cs, h)].logs))
    ELSE Failed

\* docker images: one repository:tag per line
RECURSIVE Listing(_)
Listing(imgs) ==
    IF imgs = {} THEN <<>>
    ELSE LET x == CHOOSE y \in imgs : TRUE
         IN  x \o <<"\n">> \o Listing(imgs \ {x})

ListProc(imgs, ok) == IF ok THEN Exited(Listing(imgs)) ELSE Failed

\* docker pull
PullProc(ok) == IF ok THEN Exited(<<"Status: Downloaded", "\n">>) ELSE Failed

\* docker run -d: "ok" prints the new id, "badid" prints a truncated one
RunProc(cs, outcome) ==
    IF outcome = "fail" \/ Len(cs) >= MaxContainers THEN Failed
    ELSE IF outcome = "ok" THEN Exited(Id(Len(cs) + 1) \o <<"\n">>)
    ELSE Exited(SubSeq(Id(Len(cs) + 1), 1, 1) \o <<"\n">>)

NewContainer == [running |-> TRUE, logs |-> 0]

\* outcomes the environment chooses for the calls of one handler: an outcome
\* is chosen only for a call that is made
Used(calls, op) == \E i \in 1..Len(calls) : calls[i].op = op
ChosenExisting(env, calls) ==
    /\ Used(calls, "loadHandle") \/ env.load
    /\ Used(calls, "isRunning") \/ env.inspect
    /\ Used(calls, "start") \/ env.start
ChosenFirstTime(env, calls) ==
    /\ Used(calls, "imageExists") \/ env.list
    /\ Used(calls, "pullImage") \/ env.pull
    /\ Used(calls, "clearCredentials") \/ env.clear
    /\ Used(calls, "createAndStart") \/ env.run = "ok"
    /\ Used(calls, "saveHandle") \/ env.save
ChosenStop(env, calls) ==
    /\ Used(calls, "loadHandle") \/ env.load
    /\ Used(calls, "validateExists") \/ env.validate
    /\ Used(calls, "isRunning") \/ env.inspect
    /\ Used(calls, "stop") \/ env.stop
    /\ Used(calls, "forceStop") \/ env.kill
ChosenShutdown(env, calls) ==
    /\ Used(calls, "loadHandle") \/ env.load
    /\ Used(calls, "isRunning") \/ env.inspect
    /\ Used(calls, "stop") \/ env.stop
\* (no outcome is drawn for a call that an earlier failure makes unreachable)
StopEnvs ==
    {env \in [load : BOOLEAN, validate : BOOLEAN, inspect : BOOLEAN, stop : BOOLEAN,
              kill : BOOLEAN] :
        /\ env.load \/ (env.validate /\ env.inspect /\ env.stop /\ env.kill)
        /\ env.validate \/ (env.inspect /\ env.stop /\ env.kill)
        /\ ~env.stop \/ env.kill}
ShutdownEnvs ==
    {env \in [load : BOOLEAN, inspect : BOOLEAN, stop : BOOLEAN] :
        env.load \/ (env.inspect /\ env.stop)}

-----------------------------------------------------------------------------
(* The pull progress aggregator: PullProgress in the docker package.        *)
(* float64 percentages are exact fractions [n, d] with d > 0 in lowest      *)
(* terms.                                                                   *)

Abs(n) == IF n < 0 THEN 0 - n ELSE n

RECURSIVE GCD(_, _)
GCD(a, b) == IF b = 0 THEN a ELSE GCD(b, a % b)

Frac(n, d) ==
    LET g == GCD(Abs(n), d) IN [n |-> n \div g, d |-> d \div g]
FAdd(x, y) ==
    LET g == GCD(x.d, y.d)
    IN  Frac(x.n * (y.d \div g) + y.n * (x.d \div g), (x.d \div g) * y.d)
FMul(x, y) == Frac(x.n * y.n, x.d * y.d)
FLess(x, y) ==
    LET g == GCD(x.d, y.d) IN x.n * (y.d \div g) < y.n * (x.d \div g)
FLeq(x, y) ==
    LET g == GCD(x.d, y.d) IN x.n * (y.d \div g) <= y.n * (x.d \div g)

\* `cur / total * weight` on float64
Ratio(cur, total, weight) == Frac(cur * weight, total)

\* the percentage of the notifications that carry no percentage
Sentinel == Frac(0 - 1, 1)
Hundred == Frac(100, 1)
Zero == Frac(0, 1)

\* &LayerProgress{ID: id}
NewLayer ==
    [status |-> "", downloadCurrent |-> 0, downloadTotal |-> 0,
     extractCurrent |-> 0, extractTotal |-> 0]

\* make(map[string]*LayerProgress)
NoLayers == [id \in {} |-> NewLayer]

\* `layer, exists := p.layers[id]; if !exists { layer = &LayerProgress{ID: id} }`
LayerOf(ls, id) == IF id \in DOMAIN ls THEN ls[id] ELSE NewLayer

\* p.layers[id] = layer
WithLayer(ls, id, layer) ==
    [i \in DOMAIN ls \cup {id} |-> IF i = id THEN layer ELSE ls[i]]

RECURSIVE SumOver(_, _)
\* the sum of f[id] over the layers in ids
SumOver(f, ids) ==
    IF ids = {} THEN 0
    ELSE LET id == CHOOSE i \in ids : TRUE
         IN  f[id] + SumOver(f, ids \ {id})

IsCompletedStatus(status) == status \in {"Pull complete", "Download complete"}

DownloadShare_Inverted(cur, total) == Ratio(total - cur, total, 60)

\* `downloadProgress = float64(currentDownloadBytes) / float64(totalDownloadBytes) * 60`
DownloadShare(cur, total) == Ratio(cur, total, 60)

\* `extractProgress = float64(currentExtractBytes) / float64(totalExtractBytes) * 40`
ExtractShare(cur, total) == Ratio(cur, total, 40)

\* `if cachedLayers == totalLayers { return 100 }`
AllCached(cachedLayers, totalLayers) == cachedLayers = totalLayers

\* `if totalProgress > 100 { totalProgress = 100 }`
Clamp(totalProgress) ==
    IF FLess(Hundred, totalProgress) THEN Hundred ELSE totalProgress

CalculateOverallProgress_WorkDone(ls) ==
    IF DOMAIN ls = {} THEN Zero
    ELSE Ratio(Cardinality({id \in DOMAIN ls : IsCompletedStatus(ls[id].status)}),
               Cardinality(DOMAIN ls), 100)

\* PullProgress.calculateOverallProgress
CalculateOverallProgress(ls) ==
    LET ids == DOMAIN ls
        cached == {id \in ids : ls[id].status = "Already exists"}
        completed == {id \in ids : IsCompletedStatus(ls[id].status)}
        work == ids \ cached
        withDownload == {id \in work : ls[id].downloadTotal > 1}
        withExtract == {id \in work : ls[id].extractTotal > 1}
        totalDownloadBytes == SumOver([id \in ids |-> ls[id].downloadTotal], withDownload)
        currentDownloadBytes == SumOver([id \in ids |-> ls[id].downloadCurrent], withDownload)
        totalExtractBytes == SumOver([id \in ids |-> ls[id].extractTotal], withExtract)
        currentExtractBytes == SumOver([id \in ids |-> ls[id].extractCurrent], withExtract)
        layersWithMeaningfulBytes == Cardinality(withDownload \cup withExtract)
        totalLayers == Cardinality(ids)
        cachedLayers == Cardinality(cached)
        completedLayers == Cardinality(completed)
        actualWorkLayers == totalLayers - cachedLayers
        shouldUseByteBased ==
            /\ totalDownloadBytes > 0 \/ totalExtractBytes > 0
            /\ \/ layersWithMeaningfulBytes >= 2
               \/ layersWithMeaningfulBytes * 10 > 3 * actualWorkLayers
        downloadProgress ==
            IF totalDownloadBytes > 0
            THEN DownloadShare(currentDownloadBytes, totalDownloadBytes) ELSE Zero
        extractProgress ==
            IF totalExtractBytes > 0
            THEN ExtractShare(currentExtractBytes, totalExtractBytes) ELSE Zero
        byteProgress == FAdd(downloadProgress, extractProgress)
        layersWithoutBytes == actualWorkLayers - layersWithMeaningfulBytes
        completedLayersWithoutBytes ==
            Cardinality({id \in completed :
                            ls[id].downloadTotal <= 1 /\ ls[id].extractTotal <= 1})
        mixed ==
            FAdd(FMul(byteProgress, Frac(layersWithMeaningfulBytes, actualWorkLayers)),
                 FMul(Ratio(completedLayersWithoutBytes, layersWithoutBytes, 100),
                      Frac(layersWithoutBytes, actualWorkLayers)))
    IN
    IF totalLayers = 0 THEN Zero
    ELSE IF AllCached(cachedLayers, totalLayers) THEN Hundred
    ELSE IF completedLayers + cachedLayers = totalLayers THEN Hundred
    ELSE IF ~shouldUseByteBased
    THEN IF actualWorkLayers > 0 THEN Ratio(completedLayers, actualWorkLayers, 100)
         ELSE Zero
    ELSE IF layersWithMeaningfulBytes < actualWorkLayers /\ layersWithoutBytes > 0
    THEN Clamp(mixed)
    ELSE Clamp(byteProgress)

\* PullProgress.getOverallStatus; fmt.Sprintf("... (%d/%d completed)") is the
\* tuple of the text and the two counts
GetOverallStatus(ls) ==
    LET ids == DOMAIN ls
        count(S) == Cardinality({id \in ids : ls[id].status \in S})
        downloadingCount == count({"Downloading"})
        extractingCount == count({"Extracting"})
        completeCount == count({"Pull complete", "Download complete"})
        cachedCount == count({"Already exists"})
        preparingCount == count({"Preparing", "Waiting", "Pulling fs layer"})
        totalLayers == Cardinality(ids)
        workLayers == totalLayers - cachedCount
    IN
    IF cachedCount = totalLayers /\ totalLayers > 0 THEN <<"Image already available">>
    ELSE IF downloadingCount > 0 THEN <<"Downloading layers", completeCount, workLayers>>
    ELSE IF extractingCount > 0 THEN <<"Extracting layers", completeCount, workLayers>>
    ELSE IF completeCount = workLayers /\ workLayers > 0 THEN <<"Pull complete">>
    ELSE IF preparingCount > 0 THEN <<"Initializing download...">>
    ELSE <<"Starting download...">>

\* a call of the callbacks
Note(percentage, status) == [percentage |-> percentage, status |-> status]

\* `percentage := p.calculateOverallProgress(); status := p.getOverallStatus();
\*  p.notifyCallbacks(percentage, status)`
Processed(ls) ==
    [layers |-> ls,
     notes |-> <<Note(CalculateOverallProgress(ls), GetOverallStatus(ls))>>]

\* PullProgress.processEvent for a decoded DockerPullEvent
\* [status, id, current, total, error]
ProcessEvent(ls, event) ==
    IF event.error # "" THEN [layers |-> ls, notes |-> <<>>]
    ELSE IF event.id = ""
    THEN [layers |-> ls, notes |-> <<Note(Sentinel, <<event.status>>)>>]
    ELSE
    LET layer == [LayerOf(ls, event.id) EXCEPT !.status = event.status]
        updated ==
            IF event.status = "Downloading"
            THEN IF event.total > 0
                 THEN [layer EXCEPT !.downloadCurrent = event.current,
                                    !.downloadTotal = event.total]
                 ELSE layer
            ELSE IF event.status = "Extracting"
            THEN IF event.total > 0
                 THEN [layer EXCEPT !.extractCurrent = event.current,
                                    !.extractTotal = event.total]
                 ELSE layer
            ELSE IF event.status \in {"Pull complete", "Already exists"}
            THEN [layer EXCEPT !.downloadCurrent = layer.downloadTotal,
                               !.extractCurrent = layer.extractTotal]
            ELSE layer
    IN  Processed(WithLayer(ls, event.id, updated))

\* bytes per unit in parseSize
Multiplier(unit) ==
    CASE unit = "KB" -> 1024
      [] unit = "MB" -> 1024 * 1024
      [] OTHER -> 1

\* parseSize
ParseSize(value, unit) == value * Multiplier(unit)

\* strings.Contains(line, word), a line being a sequence of words
HasWord(words, word) == \E i \in 1..Len(words) : words[i] = word

\* len(parts[0]) of `parts := strings.SplitN(line, ":", 2)`: layer ids are 12
\* characters long, the other first words of docker's lines are shorter
PrefixLen(words) ==
    IF words[1] \in {"Status", "latest", "Digest"} THEN 6 ELSE 12

\* PullProgress.processPlainTextLine for a line [words, size]: the words of
\* its text, and what sizePattern matches in it (<<>> for no match, else
\* <<value, unit, value, unit>>)
ProcessPlainTextLine(ls, line) ==
    LET isLayerLine ==
            /\ HasWord(line.words, ":")
            /\ Len(line.words) >= 2 /\ line.words[2] = ":"
            /\ PrefixLen(line.words) = 12
        layerID == IF isLayerLine THEN line.words[1] ELSE ""
        text == IF isLayerLine THEN SubSeq(line.words, 3, Len(line.words))
                ELSE line.words
    IN
    IF Len(text) >= 2 /\ text[1] = "Status" /\ text[2] = ":"
    THEN [layers |-> ls, notes |-> <<Note(Sentinel, SubSeq(text, 3, Len(text)))>>]
    ELSE IF HasWord(text, "Pulling from")
    THEN [layers |-> ls, notes |-> <<Note(Zero, <<"Starting download...">>)>>]
    ELSE IF layerID = "" THEN [layers |-> ls, notes |-> <<>>]
    ELSE
    LET layer == LayerOf(ls, layerID)
        updated ==
            IF HasWord(text, "Pulling fs layer") THEN [layer EXCEPT !.status = "Preparing"]
            ELSE IF HasWord(text, "Waiting") THEN [layer EXCEPT !.status = "Waiting"]
            ELSE IF HasWord(text, "Already exists")
            THEN [layer EXCEPT !.status = "Already exists",
                               !.downloadCurrent = 1, !.downloadTotal = 1,
                               !.extractCurrent = 1, !.extractTotal = 1]
            ELSE IF HasWord(text, "Pull complete")
            THEN [status |-> "Pull complete",
                  downloadCurrent |-> IF layer.downloadTotal > 0
                                      THEN layer.downloadTotal ELSE 1,
                  downloadTotal |-> IF layer.downloadTotal > 0
                                    THEN layer.downloadTotal ELSE 1,
                  extractCurrent |-> IF layer.extractTotal > 0
                                     THEN layer.extractTotal ELSE 1,
                  extractTotal |-> IF layer.extractTotal > 0
                                   THEN layer.extractTotal ELSE 1]
            ELSE IF HasWord(text, "Download complete")
            THEN [layer EXCEPT !.status = "Download complete",
                               !.downloadCurrent = IF layer.downloadTotal > 0
                                                   THEN layer.downloadTotal ELSE @]
            ELSE IF HasWord(text, "Downloading") \/ HasWord(text, "Extracting")
            THEN IF Len(line.size) # 4 THEN layer
                 ELSE LET current == ParseSize(line.size[1], line.size[2])
                          total == ParseSize(line.size[3], line.size[4])
                      IN  IF HasWord(text, "Extracting")
                          THEN [layer EXCEPT !.status = "Extracting",
                                             !.extractCurrent = current,
                                             !.extractTotal = total]
                          ELSE [layer EXCEPT !.status = "Downloading",
                                             !.downloadCurrent = current,
                                             !.downloadTotal = total]
            ELSE layer
    IN  Processed(WithLayer(ls, layerID, updated))

\* the body of the scanner loop of PullProgress.ProcessStream for one
\* non-empty line: a line that decodes as JSON is an event, any other is text
ProcessLine(ls, line) ==
    IF line.json THEN ProcessEvent(ls, line.event)
    ELSE ProcessPlainTextLine(ls, line)

\* what the registered callback has been told: the last notification, and
\* the largest percentage other than the sentinel among the earlier ones
Unheard ==
    [heard |-> FALSE, percentage |-> Zero, status |-> <<>>,
     peaked |-> FALSE, peak |-> Zero]

\* callback(percentage, status) for each of notes
Hear(obs, notes) ==
    IF notes = <<>> THEN obs
    ELSE LET counts == obs.heard /\ obs.percentage # Sentinel
             higher == ~obs.peaked \/ FLess(obs.peak, obs.percentage)
         IN  [heard |-> TRUE,
              percentage |-> notes[1].percentage,
              status |-> notes[1].status,
              peaked |-> obs.peaked \/ counts,
              peak |-> IF counts /\ higher THEN obs.percentage ELSE obs.peak]

\* the number of lines read, the lines of this pull run kept for a second
\* run, and how many of them the second run has read
NoFeed == [read |-> 0, stream |-> <<>>, at |-> 0]

NoPull == layers = NoLayers /\ observer = Unheard /\ feed = NoFeed

\* no PullImageWithProgress call has been made.  pc is where the caller
\* stands; alive and exit describe the `docker pull` process; pipes are the
\* lines written to stdout (1) and stderr (2) and not yet read; closed tells
\* that the read ends were closed; workers are the two ProcessStream
\* goroutines and held the line each has scanned and not yet processed; mu
\* is the goroutine holding PullProgress.mu (0 for none); errChan is the
\* channel and got what was received from it
NoCmd ==
    [pc |-> "idle", alive |-> FALSE, exit |-> 0, pipes |-> << <<>>, <<>> >>,
     closed |-> FALSE, workers |-> <<"none", "none">>, held |-> << <<>>, <<>> >>,
     mu |-> 0, errChan |-> <<>>,
     got |-> <<>>, written |-> 0, eventErr |-> FALSE, err |-> Nil]

\* nothing has been extracted and no pull has been started
Idle ==
    /\ serviceLog = <<>>
    /\ credInfo = NoCreds
    /\ pull = NoCmd
    /\ store = [op |-> "none", err |-> Nil, val |-> <<>>, io |-> TRUE,
                idSaved |-> FALSE, id |-> <<>>,
                credsSaved |-> FALSE, password |-> <<>>, url |-> <<>>]

\* one turn of the scanner loop
Deliver(line) ==
    LET r == ProcessLine(layers, line)
    IN  /\ layers' = r.layers
        /\ observer' = Hear(observer, r.notes)

\* docker's layer ids
LayerIDs == {"layer" \o ToString(i) : i \in 1..MaxLayers}

Event(status, id, current, total, error) ==
    [json |-> TRUE,
     event |-> [status |-> status, id |-> id, current |-> current,
                total |-> total, error |-> error]]

\* `docker pull` output as JSON records: per-layer states, byte counts of
\* any sign and order, a summary record without id, an error record
StructuredLines ==
    {Event(s, id, 0, 0, "") :
        s \in {"Pulling fs layer", "Download complete", "Pull complete",
               "Already exists"},
        id \in LayerIDs}
    \cup {Event(s, id, c, t, "") :
            s \in {"Downloading", "Extracting"}, id \in LayerIDs,
            c \in {0 - 1, 1, MaxBytes + 1}, t \in {0, MaxBytes}}
    \cup {Event("Pulling from library/moodle", "", 0, 0, ""),
          Event("", "", 0, 0, "manifest unknown")}

Text(words, size) == [json |-> FALSE, words |-> words, size |-> size]

\* `docker pull` output as text
FreeFormLines ==
    {Text(<<id, ":", w>>, <<>>) :
        id \in LayerIDs,
        w \in {"Pulling fs layer", "Waiting", "Already exists", "Pull complete",
               "Download complete", "Verifying Checksum", "Downloading"}}
    \cup {Text(<<id, ":", w>>, <<c, "KB", MaxBytes, "KB">>) :
            id \in LayerIDs, w \in {"Downloading", "Extracting"}, c \in {1, MaxBytes}}
    \cup {Text(<<"Status", ":", "Downloaded newer image">>, <<>>),
          Text(<<"latest", ":", "Pulling from", "library/moodle">>, <<>>),
          Text(<<"Digest", ":", "sha256">>, <<>>)}


-----------------------------------------------------------------------------
(* The orchestrator: App in the main package.                               *)

Call(op, res) == [op |-> op, res |-> res]
Outcome(err) == IF err = Nil THEN "ok" ELSE "err"

\* a goroutine `go a.waitForContainerAndExtractCredentialsSince(containerID, startTime)`;
\* before is the credential file as the activation that spawns it found it,
\* path the `go` statement that spawns it ("restart": after StartContainer,
\* "new": after SaveContainerID), loadErr the error of its Load
NewTask(h) ==
    [handle |-> h, pc |-> "init", mode |-> "init", password |-> <<>>, errs |-> 0,
     sleep |-> 0, elapsed |-> 0, fetch |-> "none",
     creds |-> [password |-> <<>>, url |-> <<>>], saved |-> Nil,
     before |-> NoFile, path |-> "new", loadErr |-> Nil]

NoTask == NewTask(<<>>)

NoCall ==
    [op |-> "none", err |-> Nil, calls |-> <<>>, spawned |-> FALSE,
     preHandle |-> NoFile, preCred |-> NoFile, task |-> NoTask]
NoMgr ==
    [op |-> "none", handle |-> <<>>, since |-> 0, proc |-> Failed,
     res |-> Res(Nil, FALSE, 0)]

(* RunMoodle, existing handle: what follows the status check *)
AfterStatusCheck_IgnoreRunning(err, running) ==
    IF err # Nil THEN "firstTime" ELSE "start"

AfterStatusCheck_ErrorRejects(err, running) ==
    IF err # Nil \/ running THEN "returnAlreadyRunning" ELSE "start"

\* RunMoodle: `if err == nil { if running { return error } ... start ... }`
AfterStatusCheck(err, running) ==
    IF err # Nil THEN "firstTime"
    ELSE IF running THEN "returnAlreadyRunning"
    ELSE "start"

\* RunMoodle: `err := StartContainer(containerID); if err != nil { return ... }`
AfterStart(err) ==
    IF err # Nil THEN "returnStartFailed" ELSE "spawnWait"

NeedsPull_Always(imageExists) == TRUE

\* RunMoodle: `if !imageExists { pull }`
NeedsPull(imageExists) == ~imageExists

AfterPull_Continue(err) == "continue"

\* RunMoodle: `if err != nil { return "failed to pull image" }`
AfterPull(err) ==
    IF err # Nil THEN "returnPullFailed" ELSE "continue"

\* RunMoodle, lines "Check if container already exists" up to the first-time setup.
\* Result: whether the call returned here, its error, the calls made, docker
\* afterwards and the handle of the wait task spawned (<<>> for none).
ExistingHandlePath(env) ==
    LET none == [returned |-> FALSE, err |-> Nil, calls |-> <<>>,
                 containers |-> containers, spawn |-> <<>>]
    IN
    IF ~ContainerIDExists(handleFile) THEN none
    ELSE
    LET ld == LoadContainerID(handleFile, env.load)
        c1 == <<Call("loadHandle", Outcome(ld.err))>>
    IN
    IF ld.err # Nil THEN [none EXCEPT !.calls = c1]
    ELSE
    LET run == IsContainerRunning(ld.val, InspectProc(containers, ld.val, env.inspect))
        c2 == c1 \o <<Call("isRunning",
                           IF run.err # Nil THEN "err"
                           ELSE IF run.val THEN "true" ELSE "false")>>
        next == AfterStatusCheck(run.err, run.val)
    IN
    IF next = "firstTime" THEN [none EXCEPT !.calls = c2]
    ELSE IF next = "returnAlreadyRunning"
    THEN [none EXCEPT !.returned = TRUE, !.err = "container is already running",
                      !.calls = c2]
    ELSE
    LET st == StartContainer(ld.val, CommandProc(containers, ld.val, env.start))
        c3 == c2 \o <<Call("start", Outcome(st.err))>>
    IN
    IF AfterStart(st.err) = "returnStartFailed"
    THEN [none EXCEPT !.returned = TRUE, !.calls = c3,
                      !.err = "failed to start existing container"]
    ELSE [returned |-> TRUE, err |-> Nil, calls |-> c3 \o <<Call("spawnWait", "ok")>>,
          containers |-> SetRunning(containers, ld.val, TRUE), spawn |-> ld.val]

\* RunMoodle, from "First-time setup: check if image exists" to the end.
FirstTimePath(env, calls0) ==
    LET base == [err |-> Nil, calls |-> calls0, handleFile |-> handleFile,
                 credFile |-> credFile, images |-> images,
                 containers |-> containers, spawn |-> <<>>]
    IN
    IF imageName = <<>>
    THEN [base EXCEPT !.err = "no Docker image name configured"]
    ELSE
    LET chk == CheckImageExists(imageName, ListProc(images, env.list))
        c1 == calls0 \o <<Call("imageExists",
                               IF chk.err # Nil THEN "err"
                               ELSE IF chk.val THEN "true" ELSE "false")>>
    IN
    IF chk.err # Nil
    THEN [base EXCEPT !.err = "failed to check Docker image", !.calls = c1]
    ELSE
    LET pulls == NeedsPull(chk.val)
        pl == PullImageWithProgress(imageName, PullProc(env.pull))
        c2 == IF pulls THEN c1 \o <<Call("pullImage", Outcome(pl.err))>> ELSE c1
        imgs == IF pulls /\ env.pull THEN images \cup {imageName} ELSE images
    IN
    IF pulls /\ AfterPull(pl.err) = "returnPullFailed"
    THEN [base EXCEPT !.err = "failed to pull image", !.calls = c2]
    ELSE
    LET clr == CredClear(credFile, env.clear)
        c3 == c2 \o <<Call("clearCredentials", Outcome(clr.err))>>
        proc == RunProc(containers, env.run)
        rc == RunContainer(imageName, proc)
        c4 == c3 \o <<Call("createAndStart", Outcome(rc.err))>>
        cs == IF proc.exit = 0 THEN Append(containers, NewContainer) ELSE containers
        made == [base EXCEPT !.credFile = clr.file, !.images = imgs, !.containers = cs]
    IN
    IF rc.err # Nil
    THEN [made EXCEPT !.err = "failed to run container", !.calls = c4]
    ELSE
    LET sv == SaveContainerID(handleFile, rc.val, env.save)
        c5 == c4 \o <<Call("saveHandle", Outcome(sv.err))>>
    IN
    IF sv.err # Nil
    THEN [made EXCEPT !.err = "failed to save container ID", !.calls = c5]
    ELSE [made EXCEPT !.calls = c5 \o <<Call("spawnWait", "ok")>>,
                      !.handleFile = sv.file, !.spawn = rc.val]

\* App.RunMoodle
RunMoodle(env) ==
    /\ started
    /\ LET ex == ExistingHandlePath(env)
           ft == FirstTimePath(env, ex.calls)
           spawn == IF ex.returned THEN ex.spawn ELSE ft.spawn
       IN  /\ ChosenExisting(env, ex.calls) = TRUE
           /\ ChosenFirstTime(env, IF ex.returned THEN <<>> ELSE ft.calls) = TRUE
           /\ handleFile' = IF ex.returned THEN handleFile ELSE ft.handleFile
           /\ credFile' = IF ex.returned THEN credFile ELSE ft.credFile
           /\ images' = IF ex.returned THEN images ELSE ft.images
           /\ containers' = IF ex.returned THEN ex.containers ELSE ft.containers
           /\ tasks' = IF spawn # <<>>
                       THEN Append(tasks, [NewTask(spawn) EXCEPT
                                        !.before = credFile,
                                        !.path = IF ex.returned THEN "restart"
                                                 ELSE "new"])
                       ELSE tasks
           /\ last' = [op |-> "RunMoodle",
                       err |-> IF ex.returned THEN ex.err ELSE ft.err,
                       calls |-> IF ex.returned THEN ex.calls ELSE ft.calls,
                       spawned |-> spawn # <<>>,
                       preHandle |-> handleFile, preCred |-> credFile,
                       task |-> NoTask]
    /\ UNCHANGED <<started, imageName, imageConfig, mgr>>
    /\ UNCHANGED <<pullVars, unitVars>>

\* StopMoodle: `if err := ValidateContainerID(containerID); err != nil { return ... }`
AfterValidate(err) ==
    IF err # Nil THEN "returnValidationFailed" ELSE "checkStatus"

\* StopMoodle: status check, best effort: `if err != nil { warn } else if !running { return nil }`
AfterStopStatus(err, running) ==
    IF err # Nil THEN "stop"
    ELSE IF ~running THEN "returnNil"
    ELSE "stop"

\* StopMoodle: `err = StopContainer(containerID); if err != nil { force stop }`
AfterGracefulStop(err) ==
    IF err # Nil THEN "forceStop" ELSE "returnNil"

AfterForceStop_ReportGraceful(forceErr) == "returnStopFailed"

\* StopMoodle: `if forceErr != nil { return error }; return nil`
AfterForceStop(forceErr) ==
    IF forceErr # Nil THEN "returnStopFailed" ELSE "returnNil"

\* App.StopMoodle: the error returned, the calls made and docker afterwards
StopMoodleOutcome(env) ==
    LET none == [err |-> Nil, calls |-> <<>>, containers |-> containers]
    IN
    IF ~ContainerIDExists(handleFile)
    THEN [none EXCEPT !.err = "no container ID found"]
    ELSE
    LET ld == LoadContainerID(handleFile, env.load)
        c1 == <<Call("loadHandle", Outcome(ld.err))>>
    IN
    IF ld.err # Nil
    THEN [none EXCEPT !.err = "failed to load container ID", !.calls = c1]
    ELSE
    LET vd == ManagerValidateContainerID(ld.val,
                                         InspectProc(containers, ld.val, env.validate))
        c2 == c1 \o <<Call("validateExists", Outcome(vd.err))>>
    IN
    IF AfterValidate(vd.err) = "returnValidationFailed"
    THEN [none EXCEPT !.err = "container validation failed", !.calls = c2]
    ELSE
    LET run == IsContainerRunning(ld.val, InspectProc(containers, ld.val, env.inspect))
        c3 == c2 \o <<Call("isRunning",
                           IF run.err # Nil THEN "err"
                           ELSE IF run.val THEN "true" ELSE "false")>>
        next == AfterStopStatus(run.err, run.val)
    IN
    IF next = "returnNil" THEN [none EXCEPT !.calls = c3]
    ELSE
    LET sp == StopContainer(ld.val, CommandProc(containers, ld.val, env.stop))
        c4 == c3 \o <<Call("stop", Outcome(sp.err))>>
    IN
    IF AfterGracefulStop(sp.err) = "returnNil"
    THEN [err |-> Nil, calls |-> c4, containers |-> SetRunning(containers, ld.val, FALSE)]
    ELSE
    LET fs == ForceStopContainer(ld.val, CommandProc(containers, ld.val, env.kill))
        c5 == c4 \o <<Call("forceStop", Outcome(fs.err))>>
    IN
    IF AfterForceStop(fs.err) = "returnStopFailed"
    THEN [none EXCEPT !.err = "failed to stop container", !.calls = c5]
    ELSE [err |-> Nil, calls |-> c5,
          containers |-> IF fs.err = Nil THEN SetRunning(containers, ld.val, FALSE)
                         ELSE containers]

\* App.StopMoodle
StopMoodle(env) ==
    /\ started
    /\ LET o == StopMoodleOutcome(env)
       IN  /\ ChosenStop(env, o.calls) = TRUE
           /\ containers' = o.containers
           /\ last' = [op |-> "StopMoodle", err |-> o.err, calls |-> o.calls,
                       spawned |-> FALSE,
                       preHandle |-> handleFile, preCred |-> credFile,
                       task |-> NoTask]
    /\ UNCHANGED <<started, imageName, imageConfig, handleFile, credFile, images, tasks, mgr>>
    /\ UNCHANGED <<pullVars, unitVars>>

\* App.OnShutdown: the calls made and docker afterwards; nothing is returned
OnShutdownOutcome(env) ==
    LET none == [calls |-> <<>>, containers |-> containers]
    IN
    IF ~ContainerIDExists(handleFile) THEN none
    ELSE
    LET ld == LoadContainerID(handleFile, env.load)
        c1 == <<Call("loadHandle", Outcome(ld.err))>>
    IN
    IF ld.err # Nil THEN [none EXCEPT !.calls = c1]
    ELSE
    LET run == IsContainerRunning(ld.val, InspectProc(containers, ld.val, env.inspect))
        c2 == c1 \o <<Call("isRunning",
                           IF run.err # Nil THEN "err"
                           ELSE IF run.val THEN "true" ELSE "false")>>
        sp == StopContainer(ld.val, CommandProc(containers, ld.val, env.stop))
        c3 == c2 \o <<Call("stop", Outcome(sp.err))>>
        stopped == IF sp.err = Nil THEN SetRunning(containers, ld.val, FALSE)
                   ELSE containers
    IN
    IF run.err # Nil THEN [calls |-> c3, containers |-> stopped]
    ELSE IF run.val THEN [calls |-> c3, containers |-> stopped]
    ELSE [none EXCEPT !.calls = c2]

\* App.OnShutdown, after which the process and its goroutines are gone
OnShutdown(env) ==
    /\ started
    /\ LET o == OnShutdownOutcome(env)
       IN  /\ ChosenShutdown(env, o.calls) = TRUE
           /\ containers' = o.containers
           /\ last' = [op |-> "OnShutdown", err |-> Nil, calls |-> o.calls,
                       spawned |-> FALSE,
                       preHandle |-> handleFile, preCred |-> credFile,
                       task |-> NoTask]
    /\ started' = FALSE
    /\ imageName' = <<>>
    /\ tasks' = <<>>
    /\ UNCHANGED <<imageConfig, handleFile, credFile, images, mgr>>
    /\ UNCHANGED <<pullVars, unitVars>>

\* FileManager.LoadImageName: the trimmed content of image.docker
LoadImageName(file) ==
    IF ~file.exists THEN [err |-> "FileError", val |-> <<>>]
    ELSE IF TrimSpace(file.data) = <<>> THEN [err |-> "FileError", val |-> <<>>]
    ELSE [err |-> Nil, val |-> TrimSpace(file.data)]

\* NewApp, then App.OnStartup: the image name of image.docker, or the fallback
OnStartup ==
    /\ ~started
    /\ started' = TRUE
    /\ imageName' = IF LoadImageName(imageConfig).err # Nil THEN FallbackImage
                    ELSE LoadImageName(imageConfig).val
    /\ last' = NoCall
    /\ UNCHANGED <<imageConfig, handleFile, credFile, images, containers, tasks, mgr>>
    /\ UNCHANGED <<pullVars, unitVars>>

-----------------------------------------------------------------------------
(* The detached task: App.waitForContainerAndExtractCredentialsSince        *)

\* the goroutine list without its i-th entry: the goroutine returned
Remove(ts, i) == SubSeq(ts, 1, i - 1) \o SubSeq(ts, i + 1, Len(ts))

\* observation of a wait task that returned, t being its final state.  The
\* function has no result and emits no event on any of its returns (it only
\* logs), so the error it surfaces is always nil.
WaitEnded(t, cred) ==
    [NoCall EXCEPT !.op = "waitEnded", !.task = t, !.preCred = cred]

\* App.testMoodleHTTP: any HTTP response on localhost:8080 counts; the port is
\* published by a running container
TestMoodleHTTP(cs, http) == http /\ \E k \in 1..Len(cs) : cs[k].running

HasExistingPassword_Always(err, password) == TRUE

\* `hasExistingPassword := err == nil && existingCreds.Password != ""`
HasExistingPassword(err, password) == err = Nil /\ password # <<>>

\* `existingCreds, err := a.credentialManager.Load()` and the choice of the
\* sub-path
TaskInit(i, io) ==
    /\ i \in 1..Len(tasks)
    /\ tasks[i].pc = "init"
    /\ LET ld == CredLoad(credFile, io)
           hasExistingPassword == HasExistingPassword(ld.err, ld.val.password)
           t == [tasks[i] EXCEPT
                   !.pc = IF hasExistingPassword THEN "probe" ELSE "poll",
                   !.mode = IF hasExistingPassword THEN "subsequent" ELSE "firstRun",
                   !.password = ld.val.password,
                   !.loadErr = ld.err]
       IN  tasks' = [tasks EXCEPT ![i] = t]
    /\ last' = NoCall
    /\ UNCHANGED <<started, imageName, imageConfig, handleFile, credFile, images, containers, mgr>>
    /\ UNCHANGED <<pullVars, unitVars>>

\* one iteration of `for time.Since(start) < subsequentTimeout { probe; sleep 2s }`:
\* the task afterwards, reachable being testMoodleHTTP() and dt the time the
\* iteration took
ProbeIteration(t, reachable, dt) ==
    IF ~(t.elapsed < SubsequentTimeout) THEN [t EXCEPT !.pc = "timeout"]
    ELSE IF reachable THEN [t EXCEPT !.pc = "done"]
    ELSE [t EXCEPT !.sleep = PollSeconds, !.elapsed = t.elapsed + dt]

\* `a.credentialManager.Update(existingCreds.Password, "http://localhost:8080")`:
\* what the subsequent path writes once the probe has answered
SubsequentUpdate(existingPassword) ==
    [password |-> existingPassword, url |-> DefaultURL]

\* the subsequent-run loop; Update's error is dropped
TaskProbe(i, http, dt, io) ==
    /\ i \in 1..Len(tasks)
    /\ tasks[i].pc = "probe"
    /\ (IF dt = PollSeconds THEN tasks[i].elapsed < MaxFineProbes * PollSeconds
        ELSE TRUE)
    /\ LET reachable == TestMoodleHTTP(containers, http)
           t == ProbeIteration(tasks[i], reachable, dt)
           args == SubsequentUpdate(tasks[i].password)
           up == CredUpdate(credFile, args.password, args.url, io)
       IN  /\ tasks' = IF t.pc = "probe" THEN [tasks EXCEPT ![i] = t]
                       ELSE Remove(tasks, i)
           /\ credFile' = IF t.pc = "done" THEN up.file ELSE credFile
           /\ last' = IF t.pc = "probe" THEN NoCall
                      ELSE WaitEnded(IF t.pc = "done" THEN [t EXCEPT !.saved = up.err]
                                     ELSE t, credFile)
    /\ UNCHANGED <<started, imageName, imageConfig, handleFile, images, containers, mgr>>
    /\ UNCHANGED <<pullVars, unitVars>>

PollIteration_GiveUp(t, res) ==
    IF res.err # Nil
    THEN IF t.errs + 1 > MaxLogErrors
         THEN [t EXCEPT !.errs = t.errs + 1, !.fetch = "err", !.pc = "done"]
         ELSE [t EXCEPT !.errs = t.errs + 1, !.fetch = "err", !.sleep = PollSeconds]
    ELSE IF IsComplete(ExtractCredentials(res.val))
    THEN [t EXCEPT !.errs = 0, !.fetch = "complete", !.pc = "done",
                   !.creds = ExtractCredentials(res.val)]
    ELSE [t EXCEPT !.errs = 0, !.fetch = "incomplete", !.sleep = PollSeconds]

PollIteration_EarlyBackoff(t, res) ==
    IF res.err # Nil
    THEN [t EXCEPT !.errs = t.errs + 1, !.fetch = "err",
                   !.sleep = IF t.errs + 1 >= MaxLogErrors THEN BackoffSeconds
                             ELSE PollSeconds]
    ELSE IF IsComplete(ExtractCredentials(res.val))
    THEN [t EXCEPT !.errs = 0, !.fetch = "complete", !.pc = "done",
                   !.creds = ExtractCredentials(res.val)]
    ELSE [t EXCEPT !.errs = 0, !.fetch = "incomplete", !.sleep = PollSeconds]

\* one iteration of the first-run `for { logs, err := GetContainerLogs(id) ... }`:
\* the task afterwards, res being the result of the fetch
PollIteration(t, res) ==
    IF res.err # Nil
    THEN [t EXCEPT !.errs = t.errs + 1, !.fetch = "err",
                   !.sleep = IF t.errs + 1 > MaxLogErrors THEN BackoffSeconds
                             ELSE PollSeconds]
    ELSE IF IsComplete(ExtractCredentials(res.val))
    THEN [t EXCEPT !.errs = 0, !.fetch = "complete", !.pc = "done",
                   !.creds = ExtractCredentials(res.val)]
    ELSE [t EXCEPT !.errs = 0, !.fetch = "incomplete", !.sleep = PollSeconds]

\* the first-run loop; Update's error is dropped
TaskPoll(i, ok, io) ==
    /\ i \in 1..Len(tasks)
    /\ tasks[i].pc = "poll"
    /\ LET res == GetContainerLogs(tasks[i].handle,
                                   LogsProc(containers, tasks[i].handle, ok))
           t == PollIteration(tasks[i], res)
           up == CredUpdate(credFile, t.creds.password, t.creds.url, io)
       IN  /\ tasks' = IF t.pc = "poll" THEN [tasks EXCEPT ![i] = t]
                       ELSE Remove(tasks, i)
           /\ credFile' = IF t.pc = "done" THEN up.file ELSE credFile
           /\ last' = IF t.pc = "poll" THEN NoCall
                      ELSE WaitEnded([t EXCEPT !.saved = up.err], credFile)
    /\ UNCHANGED <<started, imageName, imageConfig, handleFile, images, containers, mgr>>
    /\ UNCHANGED <<pullVars, unitVars>>

-----------------------------------------------------------------------------
(* Environment steps *)

\* the service of a running container prints its next boot line
ServicePrints(k) ==
    /\ k \in 1..Len(containers)
    /\ containers[k].running
    /\ containers[k].logs < Len(BootLog(k))
    /\ containers' = [containers EXCEPT ![k].logs = @ + 1]
    /\ last' = NoCall
    /\ UNCHANGED <<started, imageName, imageConfig, handleFile, credFile, images, tasks, mgr>>
    /\ UNCHANGED <<pullVars, unitVars>>

\* the image is removed from the local docker store (`docker rmi`), so that
\* the next `docker images` does not list it
ImageRemoved ==
    /\ images # {}
    /\ images' = {}
    /\ last' = NoCall
    /\ UNCHANGED <<started, imageName, imageConfig, handleFile, credFile, containers, tasks, mgr>>
    /\ UNCHANGED <<pullVars, unitVars>>

-----------------------------------------------------------------------------
(* Specification of the orchestrator *)

Init ==
    /\ started = FALSE
    /\ imageName = <<>>
    /\ imageConfig = File(ConfiguredImage \o <<"\n">>)
    /\ handleFile = NoFile
    /\ credFile = NoFile
    /\ images = {}
    /\ containers = <<>>
    /\ tasks = <<>>
    /\ last = NoCall
    /\ mgr = NoMgr
    /\ NoPull
    /\ Idle

\* the outcomes of the existing-handle calls, then those of the first-time calls
ExistingEnvs ==
    {env \in {[load |-> a, inspect |-> b, start |-> c, list |-> TRUE, pull |-> TRUE,
               clear |-> TRUE, run |-> "ok", save |-> TRUE] : a, b, c \in BOOLEAN} :
        /\ env.load \/ (env.inspect /\ env.start)
        /\ env.inspect \/ env.start}
\* (no outcome is drawn for a call that an earlier failure makes unreachable)
FirstTimeEnvs(e1) ==
    {env \in {[e1 EXCEPT !.list = a, !.pull = b, !.clear = c, !.run = r, !.save = d] :
                 a, b, c, d \in BOOLEAN, r \in {"ok", "fail", "badid"}} :
        /\ env.list \/ (env.pull /\ env.clear /\ env.run = "ok" /\ env.save)
        /\ env.pull \/ (env.clear /\ env.run = "ok" /\ env.save)
        /\ env.run = "ok" \/ env.save}

\* a call of RunMoodle, with at most cap wait goroutines alive afterwards
Activate(cap) ==
    /\ \E e1 \in ExistingEnvs :
          /\ ChosenExisting(e1, ExistingHandlePath(e1).calls) = TRUE
          /\ IF ExistingHandlePath(e1).returned THEN RunMoodle(e1)
             ELSE \E env \in FirstTimeEnvs(e1) : RunMoodle(env)
    /\ Len(tasks') <= cap

\* an iteration of a first-run loop, followed up to cap consecutive failures
Poll(cap) ==
    /\ \E i \in 1..Len(tasks), ok \in BOOLEAN, io \in BOOLEAN : TaskPoll(i, ok, io)
    /\ \A j \in 1..Len(tasks') : tasks'[j].errs <= cap

Probe ==
    \E i \in 1..Len(tasks), http \in BOOLEAN, dt \in {PollSeconds, SubsequentTimeout},
       io \in BOOLEAN : TaskProbe(i, http, dt, io)

\* the observation of the last call has been looked at and is dropped; the
\* program does not change
Forget ==
    /\ last # NoCall
    /\ last' = NoCall
    /\ UNCHANGED <<started, imageName, imageConfig, handleFile, credFile, images,
                   containers, tasks, mgr>>
    /\ UNCHANGED <<pullVars, unitVars>>

\* Calls and steps are observed one at a time: each is looked at before the
\* next is taken.  No step of the program reads `last`, so the program goes
\* through the same states as it does unobserved.
Next ==
    \/ Forget
    \/ last = NoCall /\ OnStartup
    \/ last = NoCall /\ Activate(MaxTasks)
    \/ last = NoCall /\ \E env \in StopEnvs : StopMoodle(env)
    \/ last = NoCall /\ \E env \in ShutdownEnvs : OnShutdown(env)
    \/ last = NoCall /\ \E i \in 1..Len(tasks), io \in BOOLEAN : TaskInit(i, io)
    \/ last = NoCall /\ Probe
    \/ last = NoCall /\ Poll(MaxErrorsBesideHandlers)
    \/ last = NoCall /\ \E k \in 1..MaxContainers : ServicePrints(k)
    \/ last = NoCall /\ ImageRemoved

Spec == Init /\ [][Next]_vars

-----------------------------------------------------------------------------
(* Specification of the readiness wait alone: an activation has returned   *)
(* and its goroutine runs.  Either the brand-new path created container k   *)
(* (nothing printed yet; credentials of an earlier container are still      *)
(* stored if the best-effort clear failed), or the restart path started it  *)
(* again (credentials of its first boot stored, log complete).              *)

\* containers of earlier activations, in any state
EarlierContainers ==
    UNION {[1..n -> [running : BOOLEAN, logs : 0..Len(BootLog(1))]] :
              n \in 0..(MaxContainers - 1)}

StoredCredentials(k) == File(FormatCredentials(PasswordOf(k), DefaultURL))

InitWait ==
    /\ started = TRUE
    /\ imageName = ConfiguredImage
    /\ imageConfig = File(ConfiguredImage \o <<"\n">>)
    /\ images = {ConfiguredImage}
    /\ \E earlier \in EarlierContainers :
          LET k == Len(earlier) + 1
          IN  /\ credFile \in {NoFile} \cup {StoredCredentials(j) : j \in 1..k}
              /\ containers =
                    Append(earlier,
                           [NewContainer EXCEPT
                              !.logs = IF credFile = StoredCredentials(k)
                                       THEN Len(BootLog(k)) ELSE 0])
              /\ handleFile = File(Id(k))
              /\ tasks = <<[NewTask(Id(k)) EXCEPT
                              !.before = credFile,
                              !.path = IF credFile = StoredCredentials(k)
                                       THEN "restart" ELSE "new"]>>
    /\ last = NoCall
    /\ mgr = NoMgr
    /\ NoPull
    /\ Idle

NextWait ==
    \/ \E i \in 1..Len(tasks), io \in BOOLEAN : TaskInit(i, io)
    \/ Probe
    \/ Poll(MaxConsecutiveErrors)
    \/ \E k \in 1..MaxContainers : ServicePrints(k)

SpecWait == InitWait /\ [][NextWait]_vars

\* the goroutine is scheduled and the service keeps booting
FairSpecWait ==
    /\ SpecWait
    /\ WF_vars(\E i \in 1..Len(tasks), io \in BOOLEAN : TaskInit(i, io))
    /\ WF_vars(\E k \in 1..MaxContainers : ServicePrints(k))

-----------------------------------------------------------------------------
-----------------------------------------------------------------------------
(* Specification of overlapping waits: the orchestrator after OnStartup,    *)
(* image present, activated again while earlier wait goroutines are alive.  *)

InitOverlap ==
    /\ started = TRUE
    /\ imageName = ConfiguredImage
    /\ imageConfig = File(ConfiguredImage \o <<"\n">>)
    /\ handleFile = NoFile
    /\ credFile = NoFile
    /\ images = {ConfiguredImage}
    /\ containers = <<>>
    /\ tasks = <<>>
    /\ last = NoCall
    /\ mgr = NoMgr
    /\ NoPull
    /\ Idle

NextOverlap ==
    \/ Forget
    \/ last = NoCall /\ Activate(MaxOverlap)
    \/ last = NoCall /\ \E i \in 1..Len(tasks), io \in BOOLEAN : TaskInit(i, io)
    \/ last = NoCall /\ Probe
    \/ last = NoCall /\ Poll(MaxErrorsBesideHandlers)
    \/ last = NoCall /\ \E k \in 1..MaxContainers : ServicePrints(k)

SpecOverlap == InitOverlap /\ [][NextOverlap]_vars

(* Specification of the docker Manager alone: its operations called with    *)
(* handles of every length up to MaxHandleLen.                              *)

Handles == {[i \in 1..n |-> "a"] : n \in 0..MaxHandleLen}
Procs == {Failed, Exited(<<"true", "\n">>)}
\* time.Time values: 0 is the zero time
Sinces == {0, 1}

Called(op, h, since, proc, res) ==
    [op |-> op, handle |-> h, since |-> since, proc |-> proc, res |-> res]

CallStartContainer(h, proc) ==
    /\ mgr' = Called("start", h, 0, proc, StartContainer(h, proc))
    /\ UNCHANGED <<started, imageName, imageConfig, handleFile, credFile, images, containers, tasks, last>>
    /\ UNCHANGED <<pullVars, unitVars>>
CallStopContainer(h, proc) ==
    /\ mgr' = Called("stop", h, 0, proc, StopContainer(h, proc))
    /\ UNCHANGED <<started, imageName, imageConfig, handleFile, credFile, images, containers, tasks, last>>
    /\ UNCHANGED <<pullVars, unitVars>>
CallForceStopContainer(h, proc) ==
    /\ mgr' = Called("forceStop", h, 0, proc, ForceStopContainer(h, proc))
    /\ UNCHANGED <<started, imageName, imageConfig, handleFile, credFile, images, containers, tasks, last>>
    /\ UNCHANGED <<pullVars, unitVars>>
CallIsContainerRunning(h, proc) ==
    /\ mgr' = Called("isRunning", h, 0, proc, IsContainerRunning(h, proc))
    /\ UNCHANGED <<started, imageName, imageConfig, handleFile, credFile, images, containers, tasks, last>>
    /\ UNCHANGED <<pullVars, unitVars>>
CallGetContainerLogs(h, proc) ==
    /\ mgr' = Called("fetchLogs", h, 0, proc, GetContainerLogs(h, proc))
    /\ UNCHANGED <<started, imageName, imageConfig, handleFile, credFile, images, containers, tasks, last>>
    /\ UNCHANGED <<pullVars, unitVars>>
CallGetContainerLogsSince(h, since, proc) ==
    /\ mgr' = Called("fetchLogsSince", h, since, proc,
                     GetContainerLogsSince(h, since, proc))
    /\ UNCHANGED <<started, imageName, imageConfig, handleFile, credFile, images, containers, tasks, last>>
    /\ UNCHANGED <<pullVars, unitVars>>
CallValidateContainerID(h, proc) ==
    /\ mgr' = Called("validateExists", h, 0, proc, ManagerValidateContainerID(h, proc))
    /\ UNCHANGED <<started, imageName, imageConfig, handleFile, credFile, images, containers, tasks, last>>
    /\ UNCHANGED <<pullVars, unitVars>>

NextManager ==
    \/ \E h \in Handles, proc \in Procs : CallStartContainer(h, proc)
    \/ \E h \in Handles, proc \in Procs : CallStopContainer(h, proc)
    \/ \E h \in Handles, proc \in Procs : CallForceStopContainer(h, proc)
    \/ \E h \in Handles, proc \in Procs : CallIsContainerRunning(h, proc)
    \/ \E h \in Handles, proc \in Procs : CallGetContainerLogs(h, proc)
    \/ \E h \in Handles, since \in Sinces, proc \in Procs :
          CallGetContainerLogsSince(h, since, proc)
    \/ \E h \in Handles, proc \in Procs : CallValidateContainerID(h, proc)

SpecManager == Init /\ [][NextManager]_vars

-----------------------------------------------------------------------------
(* Specification of the progress aggregator alone: one PullProgress fed     *)
(* structured and free-form lines in any order.                            *)

\* ProcessStream reads a line
ScanLine(line) ==
    /\ Deliver(line)
    /\ feed' = [feed EXCEPT !.read = @ + 1]
    /\ UNCHANGED <<started, imageName, imageConfig, handleFile, credFile,
                   images, containers, tasks, last, mgr>>
    /\ UNCHANGED unitVars

NextProgress ==
    \/ feed.read < MaxLines /\ \E line \in StructuredLines : ScanLine(line)
    \/ feed.read < MaxLines /\ \E line \in FreeFormLines : ScanLine(line)

SpecProgress == Init /\ [][NextProgress]_vars

-----------------------------------------------------------------------------
(* Specification of the credential extractor alone: the service output      *)
(* grows piece by piece and ExtractCredentials is run on all of it.         *)

\* what the service may print: unrelated lines, the markers with and
\* without a value, with blanks around it, and lines still being written
LogPieces ==
    {Piece("", <<>>, TRUE), Piece("", <<"Starting">>, TRUE),
     Piece("", <<" ", "\t">>, TRUE), Piece("", <<"Starting">>, FALSE),
     Piece("Generated admin password:", <<" ", "Sw0rdFish!">>, TRUE),
     Piece("Generated admin password:", <<"\t", "Sw0rdFish!", " ", "\r">>, TRUE),
     Piece("Generated admin password:", <<" ">>, TRUE),
     Piece("Generated admin password:", <<" ">>, FALSE),
     Piece("Password:", <<" ", "hunter2">>, TRUE),
     Piece("Moodle is available at:", <<" ", "http://localhost:8080">>, TRUE),
     Piece("Moodle is available at:", <<"http://localhost:8080", " ">>, FALSE),
     Piece("Moodle is available at:", <<>>, TRUE)}

\* the service prints a piece; ExtractCredentials is called on the whole output
Extract(piece) ==
    /\ Len(serviceLog) < MaxPieces
    /\ serviceLog' = Append(serviceLog, piece)
    /\ credInfo' = ExtractCredentials(TextOf(serviceLog'))
    /\ UNCHANGED <<started, imageName, imageConfig, handleFile, credFile,
                   images, containers, tasks, last, mgr, pull, store>>
    /\ UNCHANGED pullVars

NextExtract == \E piece \in LogPieces : Extract(piece)

SpecExtract == Init /\ [][NextExtract]_vars

-----------------------------------------------------------------------------
(* Specification of the persistent store alone: FileManager is called with  *)
(* any strings, as its test does; `store` remembers what the last           *)
(* successful save of each file was given, until another write.             *)

\* container ids handed to SaveContainerID: ids as docker prints them, bare
\* and with white space around, a short one, the empty one
HandleInputs ==
    {Id(1), Id(2), <<" ">> \o Id(1), Id(2) \o <<"\n">>,
     SubSeq(Id(1), 1, IdLen - 1), <<>>}

\* passwords and URLs handed to SaveCredentials
SecretInputs ==
    {<<"pw1">>, <<"p", "=", "w">>, <<" ", "pw1">>, <<"pw1", "\n", "x">>, <<" ">>, <<>>}
EndpointInputs == {DefaultURL, DefaultURL \o <<"\t">>, <<>>}

StoreFrame ==
    /\ UNCHANGED <<started, imageName, imageConfig, images, containers, tasks,
                   last, mgr, serviceLog, credInfo, pull>>
    /\ UNCHANGED pullVars

\* fm.SaveContainerID(id)
CallSaveContainerID(id, io) ==
    LET r == SaveContainerID(handleFile, id, io)
    IN  /\ handleFile' = r.file
        /\ store' = [store EXCEPT !.op = "SaveContainerID", !.err = r.err,
                                  !.val = <<>>, !.io = io,
                                  !.idSaved = IF r.err = "ValidationError" THEN @
                                              ELSE r.err = Nil,
                                  !.id = IF r.err = Nil THEN id ELSE @]
        /\ UNCHANGED credFile
        /\ StoreFrame

\* fm.LoadContainerID()
CallLoadContainerID(io) ==
    LET r == LoadContainerID(handleFile, io)
    IN  /\ store' = [store EXCEPT !.op = "LoadContainerID", !.err = r.err,
                                  !.val = r.val, !.io = io]
        /\ UNCHANGED <<handleFile, credFile>>
        /\ StoreFrame

\* fm.SaveCredentials(password, url)
CallSaveCredentials(password, url, io) ==
    LET r == SaveCredentials(credFile, password, url, io)
    IN  /\ credFile' = r.file
        /\ store' = [store EXCEPT !.op = "SaveCredentials", !.err = r.err,
                                  !.val = <<>>, !.io = io,
                                  !.credsSaved = IF r.err = "ValidationError" THEN @
                                                 ELSE r.err = Nil,
                                  !.password = IF r.err = Nil THEN password ELSE @,
                                  !.url = IF r.err = Nil THEN url ELSE @]
        /\ UNCHANGED handleFile
        /\ StoreFrame

\* fm.LoadCredentials()
CallLoadCredentials(io) ==
    LET r == LoadCredentials(credFile, io)
    IN  /\ store' = [store EXCEPT !.op = "LoadCredentials", !.err = r.err,
                                  !.val = r.val, !.io = io]
        /\ UNCHANGED <<handleFile, credFile>>
        /\ StoreFrame

\* fm.DeleteCredentials()
CallDeleteCredentials(io) ==
    LET r == DeleteCredentials(credFile, io)
    IN  /\ credFile' = r.file
        /\ store' = [store EXCEPT !.op = "DeleteCredentials", !.err = r.err,
                                  !.val = <<>>, !.io = io, !.credsSaved = FALSE]
        /\ UNCHANGED handleFile
        /\ StoreFrame

NextStore ==
    \/ \E id \in HandleInputs, io \in BOOLEAN : CallSaveContainerID(id, io)
    \/ \E io \in BOOLEAN : CallLoadContainerID(io)
    \/ \E password \in SecretInputs, url \in EndpointInputs, io \in BOOLEAN :
          CallSaveCredentials(password, url, io)
    \/ \E io \in BOOLEAN : CallLoadCredentials(io)
    \/ \E io \in BOOLEAN : CallDeleteCredentials(io)

SpecStore == Init /\ [][NextStore]_vars

-----------------------------------------------------------------------------
(* Specification of the image check alone: the local docker store holds any *)
(* images and Manager.CheckImageExists is called for the configured name.   *)

\* repository:tag names: the configured one, names that contain it, another
ImageNames ==
    {ConfiguredImage, FallbackImage, <<"x", "/">> \o ConfiguredImage, <<"n", ":", "1">>}

InitImages ==
    /\ started = TRUE
    /\ imageName \in {ConfiguredImage, FallbackImage}
    /\ imageConfig = File(imageName \o <<"\n">>)
    /\ handleFile = NoFile
    /\ credFile = NoFile
    /\ images = {}
    /\ containers = <<>>
    /\ tasks = <<>>
    /\ last = NoCall
    /\ mgr = NoMgr
    /\ NoPull
    /\ Idle

\* an image is pulled or built by anybody (`docker pull`, `docker build -t`)
ImageListed(name) ==
    /\ name \notin images
    /\ images' = images \cup {name}
    /\ UNCHANGED <<started, imageName, imageConfig, handleFile, credFile,
                   containers, tasks, last, mgr>>
    /\ UNCHANGED <<pullVars, unitVars>>

\* m.CheckImageExists()
CallCheckImageExists(ok) ==
    /\ mgr' = Called("imageExists", <<>>, 0, ListProc(images, ok),
                     CheckImageExists(imageName, ListProc(images, ok)))
    /\ UNCHANGED <<started, imageName, imageConfig, handleFile, credFile, images,
                   containers, tasks, last>>
    /\ UNCHANGED <<pullVars, unitVars>>

NextImages ==
    \/ \E name \in ImageNames : ImageListed(name)
    \/ ImageRemoved
    \/ \E ok \in BOOLEAN : CallCheckImageExists(ok)

SpecImages == InitImages /\ [][NextImages]_vars

-----------------------------------------------------------------------------
(* Specification of one Manager.PullImageWithProgress call: the caller, the *)
(* `docker pull` process and the two ProcessStream goroutines, one step at  *)
(* a time in any order.  cmd.Wait closes the read ends of the pipes once it *)
(* has seen the process exit (os/exec: "it is incorrect to call Wait before *)
(* all reads from the pipe have completed"); the code calls it while the    *)
(* goroutines read, so a goroutine either finds the end of its pipe before  *)
(* the close or a closed file after it, and both orders are in the model.   *)

\* what the process writes: two layer records, an error record, a text line
PullLines ==
    {Event("Pull complete", "layer1", 0, 0, ""),
     Event("Downloading", "layer1", 1, MaxBytes, ""),
     Event("", "", 0, 0, "manifest unknown"),
     Text(<<"Status", ":", "Downloaded newer image">>, <<>>)}

PullFrame ==
    UNCHANGED <<started, imageName, imageConfig, handleFile, credFile, images,
                containers, tasks, last, mgr, serviceLog, credInfo, store>>

\* PullImageWithProgress up to `cmdErr := cmd.Wait()`: the pipes, cmd.Start,
\* NewPullProgress and the two `go func()`
StartPull(ok) ==
    /\ pull.pc = "idle"
    /\ pull' = IF ~ok \/ PullImageWithProgress(imageName, Failed).err = "ValidationError"
               THEN [pull EXCEPT !.pc = "returned",
                                 !.err = PullImageWithProgress(imageName, Failed).err]
               ELSE [pull EXCEPT !.pc = "wait", !.alive = TRUE,
                                 !.workers = <<"reading", "reading">>]
    /\ UNCHANGED pullVars
    /\ PullFrame

\* the process writes a line on stdout (ch = 1) or stderr (ch = 2)
DockerWrites(ch, line) ==
    /\ pull.alive
    /\ pull.written < MaxWritten
    /\ pull' = [pull EXCEPT !.pipes[ch] = Append(@, line), !.written = @ + 1]
    /\ UNCHANGED pullVars
    /\ PullFrame

\* the process exits
DockerExits(code) ==
    /\ pull.alive
    /\ pull' = [pull EXCEPT !.alive = FALSE, !.exit = code]
    /\ UNCHANGED pullVars
    /\ PullFrame

\* one turn of `for scanner.Scan()` in goroutine w and what follows the
\* loop: a line is taken from the pipe; at the end of the pipe ProcessStream
\* returns nil; on a closed file scanner.Err() is returned; the goroutine
\* sends the result on errChan
Scan(w) ==
    /\ pull.workers[w] = "reading"
    /\ pull' = IF pull.closed
               THEN [pull EXCEPT !.workers[w] = "failed",
                                 !.errChan = Append(@, "error processing stream")]
               ELSE IF pull.pipes[w] # <<>>
               THEN [pull EXCEPT !.workers[w] = "scanned",
                                 !.held[w] = <<Head(pull.pipes[w])>>,
                                 !.pipes[w] = Tail(@)]
               ELSE [pull EXCEPT !.workers[w] = "done",
                                 !.errChan = Append(@, Nil)]
    /\ pull.closed \/ pull.pipes[w] # <<>> \/ ~pull.alive
    /\ UNCHANGED pullVars
    /\ PullFrame

\* a lock that never makes a goroutine wait
CanLock_Always(mu) == TRUE

\* `p.mu.Lock()`: the mutex is acquired when no goroutine holds it
CanLock(mu) == mu = 0

\* processEvent and processPlainTextLine from `p.mu.Lock()` to the update of
\* the layer found or created for the line
Enter(w) ==
    /\ pull.workers[w] = "scanned"
    /\ CanLock(pull.mu)
    /\ pull' = [pull EXCEPT !.workers[w] = "locked", !.mu = w]
    /\ layers' = ProcessLine(layers, pull.held[w][1]).layers
    /\ UNCHANGED <<observer, feed>>
    /\ PullFrame

\* the rest of the two functions: calculateOverallProgress and
\* getOverallStatus on the map as it now is, notifyCallbacks, and the
\* deferred `p.mu.Unlock()`
Leave(w) ==
    /\ pull.workers[w] = "locked"
    /\ LET line == pull.held[w][1]
       IN  /\ observer' = Hear(observer, ProcessLine(layers, line).notes)
           /\ pull' = [pull EXCEPT
                         !.workers[w] = "reading",
                         !.held[w] = <<>>,
                         !.mu = IF @ = w THEN 0 ELSE @,
                         !.eventErr = @ \/ (line.json /\ line.event.error # "")]
    /\ feed' = [feed EXCEPT !.read = @ + 1]
    /\ UNCHANGED layers
    /\ PullFrame

\* `cmdErr := cmd.Wait()` returns: the process has exited and the read ends
\* of both pipes are closed
WaitReturns ==
    /\ pull.pc = "wait"
    /\ ~pull.alive
    /\ pull' = [pull EXCEPT !.pc = "receive", !.closed = TRUE]
    /\ UNCHANGED pullVars
    /\ PullFrame

\* `streamErr1 := <-errChan`, `streamErr2 := <-errChan` and, after the
\* second, the checks and the return
Receive ==
    /\ pull.pc = "receive"
    /\ pull.errChan # <<>>
    /\ LET got == Append(pull.got, Head(pull.errChan))
       IN  pull' = [pull EXCEPT
                      !.errChan = Tail(@),
                      !.got = got,
                      !.pc = IF Len(got) = 2 THEN "returned" ELSE @,
                      !.err = IF Len(got) = 2
                              THEN PullImageWithProgress(
                                       imageName, [exit |-> pull.exit, out |-> <<>>]).err
                              ELSE @]
    /\ UNCHANGED pullVars
    /\ PullFrame

NextPull ==
    \/ \E ok \in BOOLEAN : StartPull(ok)
    \/ \E ch \in 1..2, line \in PullLines : DockerWrites(ch, line)
    \/ \E code \in 0..1 : DockerExits(code)
    \/ \E w \in 1..2 : Scan(w)
    \/ \E w \in 1..2 : Enter(w)
    \/ \E w \in 1..2 : Leave(w)
    \/ WaitReturns
    \/ Receive

SpecPull == InitImages /\ [][NextPull]_vars

-----------------------------------------------------------------------------
(* Specification of a replayed pull: one PullProgress reads a short stream  *)
(* to its completion and then reads the same lines again.                   *)

\* every layer known is pulled or was there already
Completed(ls) ==
    /\ DOMAIN ls # {}
    /\ \A id \in DOMAIN ls : ls[id].status \in {"Pull complete", "Already exists"}

\* the lines of an ordinary pull
ReplayLines ==
    {line \in StructuredLines :
        /\ line.event.id # ""
        /\ line.event.status \in {"Pulling fs layer", "Downloading", "Pull complete",
                                  "Already exists"}
        /\ line.event.current \in {0, 1}
        /\ line.event.status = "Downloading" => line.event.total > 0}
    \cup {line \in FreeFormLines :
            /\ line.size = <<>>
            /\ \E w \in {"Pulling fs layer", "Pull complete", "Already exists"} :
                  HasWord(line.words, w)}

\* ProcessStream reads a line of the first run, which is kept
FirstRun(line) ==
    /\ feed.at = 0
    /\ Len(feed.stream) < MaxStreamLen
    /\ Deliver(line)
    /\ feed' = [feed EXCEPT !.read = @ + 1, !.stream = Append(@, line)]
    /\ UNCHANGED <<started, imageName, imageConfig, handleFile, credFile,
                   images, containers, tasks, last, mgr>>
    /\ UNCHANGED unitVars

\* ProcessStream, called again on the same PullProgress once the first run
\* is complete, reads the next line of the same stream
SecondRun ==
    /\ feed.at > 0 \/ Completed(layers)
    /\ feed.at < Len(feed.stream)
    /\ Deliver(feed.stream[feed.at + 1])
    /\ feed' = [feed EXCEPT !.read = @ + 1, !.at = @ + 1]
    /\ UNCHANGED <<started, imageName, imageConfig, handleFile, credFile,
                   images, containers, tasks, last, mgr>>
    /\ UNCHANGED unitVars

NextReplay ==
    \/ \E line \in ReplayLines : FirstRun(line)
    \/ SecondRun

SpecReplay == Init /\ [][NextReplay]_vars

-----------------------------------------------------------------------------
(* Properties.  `last` is the observation of the handler call or of the     *)
(* wait goroutine that ended in the step leading to the current state;      *)
(* `mgr` is the observation of the last Manager call.                       *)

Made(op, res) == \E i \in 1..Len(last.calls) : last.calls[i] = Call(op, res)
Times(op) == Cardinality({i \in 1..Len(last.calls) : last.calls[i].op = op})
Position(op) == CHOOSE i \in 1..Len(last.calls) : last.calls[i].op = op
StoreUntouched == handleFile = last.preHandle /\ credFile = last.preCred

\* C1: an activation whose persisted handle loads and whose container is
\* reported running returns an error, makes no further call (no start, image
\* check, pull, credential clear, create, save), spawns no wait, and leaves
\* the stored handle and credentials as they were.
C1_RunningHandleRejected ==
    (last.op = "RunMoodle" /\ Made("loadHandle", "ok") /\ Made("isRunning", "true"))
    => /\ last.err # Nil
       /\ last.calls = <<Call("loadHandle", "ok"), Call("isRunning", "true")>>
       /\ ~last.spawned
       /\ StoreUntouched

C1_Witness ==
    /\ last.op = "RunMoodle"
    /\ Made("isRunning", "true")
    /\ last.err = "container is already running"
    /\ handleFile.exists /\ credFile.exists

\* C2: an activation that starts without a persisted handle and finds the
\* image present never pulls, and creates the container exactly once, after
\* the image check.
C2_NoPullWhenImagePresent ==
    (last.op = "RunMoodle" /\ ~last.preHandle.exists /\ Made("imageExists", "true"))
    => /\ Times("pullImage") = 0
       /\ Times("createAndStart") = 1
       /\ Position("imageExists") < Position("createAndStart")

C2_Witness ==
    /\ last.op = "RunMoodle"
    /\ ~last.preHandle.exists
    /\ Made("imageExists", "true")
    /\ Made("createAndStart", "ok")
    /\ last.spawned

\* C3: when the persisted handle is not running and starting it fails, the
\* start error is not returned: the activation goes on to the brand-new path
\* (image check, optional pull, create, save of the new handle).
C3_StartFailureFallsThrough ==
    (last.op = "RunMoodle" /\ Made("isRunning", "false") /\ Made("start", "err"))
    => /\ last.err # "failed to start existing container"
       /\ Times("imageExists") = 1

C5_ForcedStopCountsAsSuccess ==
    (last.op = "StopMoodle" /\ Made("stop", "err") /\ Made("forceStop", "ok"))
    => last.err = Nil

C5_Witness ==
    /\ last.op = "StopMoodle"
    /\ Made("stop", "err")
    /\ Made("forceStop", "ok")
    /\ last.err = Nil
    /\ \A k \in 1..Len(containers) : ~containers[k].running

\* C6 (as written): StopMoodle with a loadable handle returns an error only
\* if graceful stop and forced stop were both attempted and both failed.
C6_OnlyDoubleStopFailure ==
    (last.op = "StopMoodle" /\ Made("loadHandle", "ok") /\ last.err # Nil)
    => Made("stop", "err") /\ Made("forceStop", "err")

\* C6 (amended): StopMoodle with a loadable handle returns an error only if
\* the existence check of the handle failed (nothing is stopped then), or if
\* graceful stop and forced stop were both attempted and both failed; a
\* failing isRunning check never makes it return an error.
C6_ValidationOrDoubleStopFailure ==
    /\ (last.op = "StopMoodle" /\ Made("loadHandle", "ok") /\ last.err # Nil)
       => \/ /\ Made("validateExists", "err")
             /\ Times("stop") = 0 /\ Times("forceStop") = 0
          \/ Made("stop", "err") /\ Made("forceStop", "err")
    /\ (last.op = "StopMoodle" /\ Made("isRunning", "err") /\ last.err # Nil)
       => Made("stop", "err") /\ Made("forceStop", "err")

C6_Witness ==
    /\ last.op = "StopMoodle"
    /\ Made("loadHandle", "ok")
    /\ Made("validateExists", "err")
    /\ last.err = "container validation failed"

\* C7: at shutdown, with a persisted handle whose container is running, a
\* failing graceful stop is followed by a forced stop before OnShutdown
\* returns.
C7_ShutdownForcesStop ==
    (last.op = "OnShutdown" /\ Made("isRunning", "true") /\ Made("stop", "err"))
    => Times("forceStop") = 1

\* C8 (as written): each Manager operation on a handle (start, stop,
\* forceStop, isRunning, fetchLogs, fetchLogs-since, validateExists) returns
\* a ValidationError and spawns no process when the handle is empty or
\* shorter than 12 characters, and spawns exactly one process when the
\* handle has 12 or more characters.
C8_HandleLengthDecides ==
    mgr.op # "none"
    => IF Len(mgr.handle) < 12
       THEN mgr.res.err = "ValidationError" /\ mgr.res.spawned = 0
       ELSE mgr.res.spawned = 1

\* C8 (amended): as above, except that fetchLogs-since with a handle of 12 or
\* more characters and the zero time as `since` returns a ValidationError and
\* spawns no process; with a non-zero `since` it spawns exactly one.
C8_HandleLengthAndSinceDecide ==
    mgr.op # "none"
    => IF Len(mgr.handle) < 12
       THEN mgr.res.err = "ValidationError" /\ mgr.res.spawned = 0
       ELSE IF mgr.op = "fetchLogsSince" /\ mgr.since = 0
       THEN mgr.res.err = "ValidationError" /\ mgr.res.spawned = 0
       ELSE mgr.res.spawned = 1

C8_Witness ==
    /\ mgr.op = "fetchLogsSince"
    /\ Len(mgr.handle) = 11
    /\ mgr.since # 0
    /\ mgr.res.err = "ValidationError"
    /\ mgr.res.spawned = 0

\* the credentials the store holds, as CredentialManager.Load reads them
Stored == CredLoad(credFile, TRUE)

FirstRunWaiting ==
    /\ ~credFile.exists
    /\ \E i \in 1..Len(tasks) : tasks[i].mode = "firstRun"

FirstRunReady ==
    /\ last.op = "waitEnded"
    /\ last.task.mode = "firstRun"
    /\ credFile.exists
    /\ Stored.err = Nil
    /\ Stored.val.password = last.task.creds.password
    /\ Stored.val.url = last.task.creds.url

\* a first-run loop is polling and a fetch made now would succeed with both
\* markers in its text
CompleteFetchAwaited ==
    \E i \in 1..Len(tasks) :
       /\ tasks[i].pc = "poll"
       /\ LET res == GetContainerLogs(tasks[i].handle,
                                      LogsProc(containers, tasks[i].handle, TRUE))
          IN  res.err = Nil /\ IsComplete(ExtractCredentials(res.val))

\* C9: on the first-run path, starting from an empty credential store, if log
\* fetches eventually succeed and the fetched text eventually holds both
\* markers (no loop polls forever while such a fetch is there to be made),
\* the wait eventually ends with the credentials extracted from that fetch
\* persisted in the store.
C9_FirstRunEventuallyReady ==
    ([]<>~CompleteFetchAwaited) => (FirstRunWaiting ~> FirstRunReady)

Polling(i) == tasks[i].mode = "firstRun" /\ tasks[i].pc = "poll"

\* C11 (as written): in the first-run loop the wait after a failed fetch is
\* 2s while fewer than 5 consecutive failures have occurred and 5s from the
\* 5th consecutive failure on; a successful fetch resets the count of
\* consecutive failures to 0 and is followed by a wait of 2s.
C11_BackoffFromFifthFailure ==
    \A i \in 1..Len(tasks) :
       Polling(i) =>
          /\ tasks[i].fetch = "err"
             => /\ tasks[i].errs >= 1
                /\ tasks[i].sleep = IF tasks[i].errs >= 5 THEN 5 ELSE 2
          /\ tasks[i].fetch = "incomplete"
             => tasks[i].errs = 0 /\ tasks[i].sleep = 2

\* C11 (amended): the wait after a failed fetch is 2s up to and including the
\* 5th consecutive failure and 5s from the 6th consecutive failure on; a
\* successful fetch resets the count to 0 and is followed by a wait of 2s.
C11_BackoffFromSixthFailure ==
    \A i \in 1..Len(tasks) :
       Polling(i) =>
          /\ tasks[i].fetch = "err"
             => /\ tasks[i].errs >= 1
                /\ tasks[i].sleep = IF tasks[i].errs >= 6 THEN 5 ELSE 2
          /\ tasks[i].fetch = "incomplete"
             => tasks[i].errs = 0 /\ tasks[i].sleep = 2

C11_Witness ==
    \E i \in 1..Len(tasks) :
       /\ Polling(i)
       /\ tasks[i].fetch = "err"
       /\ tasks[i].errs = 6
       /\ tasks[i].sleep = 5

\* the subsequent-path wait that ended in the last step gave up on its timeout
TimedOut ==
    /\ last.op = "waitEnded"
    /\ last.task.mode = "subsequent"
    /\ last.task.pc = "timeout"

\* C12: a subsequent-path wait whose probe never succeeds ends once the
\* bounded duration has elapsed, surfaces a TimeoutError (a Failed outcome
\* that can be observed, not a silent end), and leaves the stored credentials
\* as they were.
C12_TimeoutSurfaced ==
    TimedOut => /\ last.task.elapsed >= SubsequentTimeout
                /\ last.err = "TimeoutError"
                /\ credFile = last.preCred

\* the subsequent-path wait that ended in the last step got an HTTP response
\* and wrote the credential file
SubsequentSaved ==
    /\ last.op = "waitEnded"
    /\ last.task.mode = "subsequent"
    /\ last.task.pc = "done"
    /\ last.task.saved = Nil

\* C13: when the subsequent-path wait succeeds, the credentials it persists
\* carry exactly the secret that the store held before the activation: the
\* secret is neither replaced nor emptied, and the endpoint is the fixed local
\* one.
C13_SubsequentKeepsSecret ==
    SubsequentSaved =>
       /\ Stored.err = Nil
       /\ Stored.val.password # <<>>
       /\ Stored.val.password = CredLoad(last.task.before, TRUE).val.password
       /\ Stored.val.url = DefaultURL

\* C14: a wait spawned at the end of the brand-new path (container created,
\* handle persisted) always takes the first-run sub-path: it polls the
\* service logs and never probes over HTTP, whatever the store held before
\* and whether or not the best-effort credential clear succeeded.
C14_NewContainerPollsLogs ==
    /\ \A i \in 1..Len(tasks) :
          (tasks[i].path = "new" /\ tasks[i].mode # "init")
          => tasks[i].mode = "firstRun" /\ tasks[i].pc = "poll"
    /\ (last.op = "waitEnded" /\ last.task.path = "new")
       => last.task.mode = "firstRun"

LoadedPassword(t) == t.loadErr = Nil /\ t.password # <<>>

C16_AllCachedIsHundred ==
    (DOMAIN layers # {} /\ \A id \in DOMAIN layers : layers[id].status = "Already exists")
    => CalculateOverallProgress(layers) = Hundred

C16_Witness ==
    /\ Cardinality(DOMAIN layers) = 2
    /\ \A id \in DOMAIN layers : layers[id].status = "Already exists"
    /\ \E id \in DOMAIN layers : layers[id].downloadTotal = 1
    /\ \E id \in DOMAIN layers : layers[id].downloadTotal = 0
    /\ observer.heard
    /\ observer.percentage = Hundred
    /\ observer.status = <<"Image already available">>

\* C17: every notification the callback receives during a pull carries a
\* percentage that is either exactly -1 or within [0, 100], whatever lines
\* are read, structured records with a current above the total or below
\* zero included.
C17_PercentageInRange ==
    observer.heard
    => \/ observer.percentage = Sentinel
       \/ FLeq(Zero, observer.percentage) /\ FLeq(observer.percentage, Hundred)

\* C18: within one pull run the percentages other than -1 that the callback
\* receives never decrease: each is at least the largest one received
\* before it, in whatever order the events of the layers arrive.
C18_NeverRegresses ==
    (observer.heard /\ observer.percentage # Sentinel /\ observer.peaked)
    => FLeq(observer.peak, observer.percentage)

\* C19: when a completed pull stream is read a second time by the same
\* aggregator, no percentage other than -1 delivered during the second
\* reading is below the largest percentage delivered before it.
C19_ReplayNeverBelowPeak ==
    (feed.at > 0 /\ observer.heard /\ observer.percentage # Sentinel /\ observer.peaked)
    => FLeq(observer.peak, observer.percentage)

\* the layers with the download (extract) current of layer id raised to c
RaisedDownload(id, c) == [layers EXCEPT ![id].downloadCurrent = c]
RaisedExtract(id, c) == [layers EXCEPT ![id].extractCurrent = c]

\* the values above cur and up to total that a current is raised to
Raises(cur, total) == {c \in {cur + 1, (cur + total) \div 2, total} : cur < c /\ c <= total}

\* C20: in every state of the aggregator, for a layer whose download
\* (extract) total is above 1, replacing its download (extract) current by a
\* larger value not above that total, everything else unchanged, never
\* lowers the computed overall percentage.
C20_RaisingCurrentNeverLowers ==
    \A id \in DOMAIN layers :
       /\ layers[id].downloadTotal > 1
          => \A c \in Raises(layers[id].downloadCurrent, layers[id].downloadTotal) :
                FLeq(CalculateOverallProgress(layers),
                     CalculateOverallProgress(RaisedDownload(id, c)))
       /\ layers[id].extractTotal > 1
          => \A c \in Raises(layers[id].extractCurrent, layers[id].extractTotal) :
                FLeq(CalculateOverallProgress(layers),
                     CalculateOverallProgress(RaisedExtract(id, c)))

C20_Witness ==
    /\ observer.heard
    /\ observer.percentage = CalculateOverallProgress(layers)
    /\ Cardinality(DOMAIN layers) = 2
    /\ \E id \in DOMAIN layers :
          /\ layers[id].status = "Downloading"
          /\ layers[id].downloadTotal > 1
          /\ layers[id].downloadCurrent < layers[id].downloadTotal
          /\ FLess(CalculateOverallProgress(layers),
                   CalculateOverallProgress(
                       RaisedDownload(id, layers[id].downloadTotal)))

\* C21: whenever every layer seen so far in the pull has last reported "Pull
\* complete" or "Already exists", the last percentage other than -1 that the
\* callback received is 100: in such a state a notification just delivered
\* that is not -1 carries 100.
C21_CompleteEndsAtHundred ==
    (Completed(layers) /\ observer.heard /\ observer.percentage # Sentinel)
    => observer.percentage = Hundred

\* what a piece holds after its marker, blanks around it removed
ValueOf(piece) == TrimSpace(piece.rest)

\* the pieces of the output that carry one of markers
Carrying(markers) == {i \in 1..Len(serviceLog) : serviceLog[i].marker \in markers}

\* the output is made of whole lines: one "Generated admin password: <s>", one
\* "Moodle is available at: <u>", both with a value, and unrelated lines
OneOfEach(i, j) ==
    /\ Carrying(PasswordMarkers) = {i}
    /\ Carrying(URLMarkers) = {j}
    /\ serviceLog[i].marker = "Generated admin password:"
    /\ ValueOf(serviceLog[i]) # <<>>
    /\ ValueOf(serviceLog[j]) # <<>>
    /\ \A k \in 1..Len(serviceLog) : serviceLog[k].nl

\* C22: for a text with one line "Generated admin password: <s>" and one
\* line "Moodle is available at: <u>", in either order, with any unrelated
\* lines before, between and after, ExtractCredentials returns the password
\* <s> and the URL <u> with the blanks around them removed, and IsComplete
\* is true.
C22_BothMarkersExtracted ==
    \A i, j \in 1..Len(serviceLog) :
       OneOfEach(i, j)
       => /\ credInfo.password = ValueOf(serviceLog[i])
          /\ credInfo.url = ValueOf(serviceLog[j])
          /\ IsComplete(credInfo)

C22_Witness ==
    /\ Len(serviceLog) = 4
    /\ OneOfEach(3, 2)
    /\ serviceLog[3].rest # <<" ", "Sw0rdFish!">>
    /\ credInfo = [password |-> <<"Sw0rdFish!">>, url |-> <<"http://localhost:8080">>]
    /\ IsComplete(credInfo)

\* a marker of markers is in text and something other than blanks follows it
HasValue(text, markers) ==
    \E i \in 1..Len(text) :
       text[i] \in markers /\ \E j \in (i + 1)..Len(text) : ~IsSpace(text[j])

Earlier(n) == ExtractCredentials(TextOf(SubSeq(serviceLog, 1, n)))

\* C24: ExtractCredentials is monotone on growing text: a field that is not
\* empty for a text is not empty for that text with more output appended,
\* so a complete result stays complete.
C24_GrowingTextKeepsFields ==
    \A n \in 0..Len(serviceLog) :
       /\ Earlier(n).password # <<>> => credInfo.password # <<>>
       /\ Earlier(n).url # <<>> => credInfo.url # <<>>
       /\ IsComplete(Earlier(n)) => IsComplete(credInfo)

C24_Witness ==
    /\ Len(serviceLog) = 4
    /\ IsComplete(Earlier(2))
    /\ Carrying(PasswordMarkers) = {1, 3, 4}
    /\ Earlier(2).url # credInfo.url
    /\ IsComplete(credInfo)

\* a string that strings.TrimSpace leaves as it is and that is one line
Plain(str) == TrimSpace(str) = str /\ \A i \in 1..Len(str) : str[i] # "\n"

\* LoadContainerID was called on what the last successful SaveContainerID
\* wrote, LoadCredentials on what the last successful SaveCredentials wrote
HandleReadBack == store.op = "LoadContainerID" /\ store.idSaved
CredentialsReadBack == store.op = "LoadCredentials" /\ store.credsSaved

HandleRoundTrip ==
    /\ store.err = Nil
    /\ store.val = store.id
    /\ ContainerIDExists(handleFile)

CredentialsRoundTrip ==
    /\ store.err = Nil
    /\ HasKey(store.val, <<"password">>)
    /\ Get(store.val, <<"password">>) = store.password
    /\ HasKey(store.val, <<"url">>)
    /\ Get(store.val, <<"url">>) = store.url
    /\ CredentialsExist(credFile)

C28_StopDeletesHandle ==
    /\ (last.op = "RunMoodle" /\ last.err = Nil /\ Made("createAndStart", "ok"))
       => ContainerIDExists(handleFile)
    /\ (last.op = "StopMoodle" /\ last.err = Nil) => ~ContainerIDExists(handleFile)

\* the activation found a persisted handle that it could not load, or whose
\* container it could not inspect
HandleUnusable ==
    /\ last.op = "RunMoodle"
    /\ ContainerIDExists(last.preHandle)
    /\ Made("loadHandle", "err") \/ Made("isRunning", "err")

\* C30: when the persisted handle cannot be loaded or its container cannot
\* be inspected, the activation does not return for that reason: it makes no
\* start call and goes on with the first-time flow (image check, pull when
\* the image is absent, create), and when it returns no error the handle of
\* the new container has replaced the old one in the store.
C30_UnusableHandleFallsBack ==
    HandleUnusable
    => /\ last.err \notin {"container is already running",
                           "failed to start existing container"}
       /\ Times("start") = 0
       /\ Times("imageExists") = 1
       /\ Made("imageExists", "false") => Times("pullImage") = 1
       /\ Made("imageExists", "true") => Times("pullImage") = 0
       /\ (Made("imageExists", "true") \/ Made("pullImage", "ok"))
          => Times("createAndStart") = 1
       /\ last.err = Nil
          => /\ Made("saveHandle", "ok")
             /\ handleFile = File(Id(Len(containers)))
             /\ handleFile # last.preHandle
             /\ last.spawned

C30_Witness ==
    /\ HandleUnusable
    /\ Made("isRunning", "err")
    /\ Made("pullImage", "ok")
    /\ last.err = Nil
    /\ last.preHandle = File(Id(1))
    /\ handleFile = File(Id(2))

\* C29: CheckImageExists looks for an exact match of the configured image
\* name in the listing: it returns true only if a listed repository:tag is
\* the configured name (a listed name that merely contains it does not
\* count), and for a missing image it returns false without error.
C29_ExactImageMatch ==
    (mgr.op = "imageExists" /\ mgr.proc.exit = 0)
    => /\ mgr.res.err = Nil
       /\ mgr.res.val <=> imageName \in images

\* the PullImageWithProgress call has returned after starting the process
PullReturned == pull.pc = "returned" /\ pull.workers # <<"none", "none">>

\* C25: PullImageWithProgress returns an error whenever the pull process
\* exits non-zero or a stream goroutine reports a failure (an error record
\* decoded from the stream included); it returns nil only if the exit code
\* is 0 and both goroutines finished without failure.
C25_StreamFailureIsAnError ==
    PullReturned
    => (pull.err = Nil
        <=> /\ pull.exit = 0
            /\ pull.workers = <<"done", "done">>
            /\ ~pull.eventErr)

\* C26: PullImageWithProgress returns only after both goroutines have ended
\* and every line the process wrote on either pipe has been handed to the
\* PullProgress: none is left unread in a pipe.
C26_PipesDrainedBeforeReturn ==
    PullReturned
    => /\ \A w \in 1..2 : pull.workers[w] \in {"done", "failed"}
       /\ pull.pipes = << <<>>, <<>> >>
       /\ feed.read = pull.written

\* C31: a non-empty line for which no layer id can be resolved (a record with
\* an empty id, a text line without a 12-character id before the colon) makes
\* exactly one notification, with percentage -1 and the line's text as
\* status, and changes no layer.  After the first line of a run no layer is
\* known only if that line resolved no id: the callback has then been called,
\* with -1.
C31_UnresolvedLineIsStatusOnly ==
    (feed.read = 1 /\ layers = NoLayers)
    => observer.heard /\ observer.percentage = Sentinel

\* C32: within one pull run, once a layer's download total (extract total)
\* has been above 1, no later line for that layer makes it smaller.
C32_TotalsNeverShrink ==
    [][\A id \in DOMAIN layers :
          /\ layers[id].downloadTotal > 1
             => layers'[id].downloadTotal >= layers[id].downloadTotal
          /\ layers[id].extractTotal > 1
             => layers'[id].extractTotal >= layers[id].extractTotal]_vars

\* C38: a notification carries 100 only when the pull is finished: every
\* known layer is then "Pull complete" or "Already exists"; a layer that is
\* only downloaded and still to be extracted never gives 100.
C38_HundredMeansFinished ==
    (observer.heard /\ observer.percentage = Hundred) => Completed(layers)

\* the goroutines that are between p.mu.Lock() and the deferred Unlock
Inside == {w \in 1..2 : pull.workers[w] = "locked"}

\* C33: the two ProcessStream goroutines of one pull are never inside the
\* layer map together: at most one is between Lock and Unlock, it is the
\* one recorded as holder of the mutex, and the map it computes the
\* percentage from and notifies about is the map as its own line's update
\* left it, so that the notifications are those of the lines taken one
\* after the other in the order of the lock.
C33_OneLineAtATime ==
    /\ Cardinality(Inside) <= 1
    /\ \A w \in 1..2 :
          pull.workers[w] = "locked"
          => /\ pull.mu = w
             /\ ProcessLine(layers, pull.held[w][1]).layers = layers
    /\ pull.mu # 0 => pull.mu \in Inside

\* one goroutine holds the lock for a layer line while the other has
\* scanned a different line for the same layer and waits for the lock
C33_Witness ==
    /\ pull.workers = <<"locked", "scanned">>
    /\ pull.held[1][1].json /\ pull.held[2][1].json
    /\ pull.held[1][1].event.id = "layer1" /\ pull.held[2][1].event.id = "layer1"
    /\ pull.held[1] # pull.held[2]
    /\ "layer1" \in DOMAIN layers

\* C34: when the first-run wait ends (the function reports "credentials
\* extracted and saved"), complete credentials equal to those extracted from
\* the last fetch are in credentials.txt; a failed save never counts as
\* success.
C34_ReadyMeansSaved ==
    (last.op = "waitEnded" /\ last.task.mode = "firstRun")
    => FirstRunReady

\* C35: after an activation has returned, with or without an error, a
\* container it created is not left running without its id in container.id:
\* when RunContainer succeeded, the container it made, if running, is the one
\* the stored handle names, whatever SaveContainerID answered.
C35_NoOrphanAfterActivation ==
    (last.op = "RunMoodle" /\ Made("createAndStart", "ok"))
    => LET k == Len(containers)
       IN  containers[k].running => handleFile = File(Id(k))

\* C36: over any sequence of RunMoodle and StopMoodle calls made one after
\* another (sequences of RunMoodle calls alone included), at most one wait
\* goroutine is alive at any time: the wait of an earlier activation has
\* returned before a later activation starts one.
C36_OneWaitAtATime == Len(tasks) <= 1

\* C37: credentials in credentials.txt were obtained for the container that
\* the stored handle names: a wait started for an earlier handle never
\* writes credentials once a later activation has stored a different handle.
C37_CredentialsBelongToHandle ==
    (credFile.exists /\ handleFile.exists)
    => \E k \in 1..Len(containers) :
          handleFile = File(Id(k)) /\ credFile = StoredCredentials(k)

=============================================================================
